---- MODULE Spec2Model ----
(***************************************************************************)
(* Model of vn_lunar_calendar: Julian Day Number arithmetic (utils.py),    *)
(* the year-code lookup tier and the astronomical tier of the conversion   *)
(* engine (converter.py), and the SolarDate validator (solar.py).          *)
(*                                                                         *)
(* The library is a set of pure functions.  Each function is an operator   *)
(* computed as the code computes it; a call of the public API is a small   *)
(* process: Init draws the call and its arguments, one action per call     *)
(* step applies the function and stores what it returned or raised.        *)
(***************************************************************************)
EXTENDS Integers, Sequences, FiniteSets, TLC

VARIABLES op, arg, mid, res, pc, cache, callers

vars == <<op, arg, mid, res, pc, cache, callers>>

\* "no value yet" for mid and res
NoValue == [kind |-> "none"]

(***************************************************************************)
(* Bounds of the explored inputs.                                          *)
(***************************************************************************)
\* round trips date -> JDN -> date cover every day of the reform year
\* 1582 +/- JdYearSpan years (and some fixed later years)
JdYearSpan == 1
\* JDN -> date -> JDN is explored in windows of +/- JdWindow days
JdWindow == 300
\* pairs of dates are compared over October 1582 +/- CmpMonthSpan months
CmpMonthSpan == 1
\* solar and lunar years outside the table: AstroYearSpan years on each side
\* of 1800..2099
AstroYearSpan == 2
\* lunar days offered to lunar_to_solar: 0..MaxLunarDay
MaxLunarDay == 31
\* number of month-length masks offered to the year-code decoder, less one
MaskCount == 15

\* lucky hours are computed for the day numbers -LuckyJdSpan..LuckyJdSpan and
\* for as many days from 2024-01-01 on
LuckyJdSpan == 30
\* sun longitudes are computed for the days within SunDaySpan days of the
\* March equinoxes of 1600, 1999 and 2024
SunDaySpan == 100
\* clock hours offered to get_hour_info: -HourMargin .. 23 + HourMargin
HourMargin == 1
\* constructor arguments: days and months from FieldMargin below the least
\* valid value to FieldMargin above the greatest
FieldMargin == 2
\* concurrent callers of the memoized functions
NumCallers == 2
\* entries an lru_cache keeps (1024 and 256 in the code, scaled down so that
\* the calls explored fill the caches and evict)
CacheCapacity == 2

\* the leap month scan is started up to LeapScanShift months after a month 11
LeapScanShift == 2

(***************************************************************************)
(* solar.py: the Gregorian validator and the date order.                   *)
(***************************************************************************)
\* the Julian rule: every fourth year
is_leap_year_every_fourth(year) == year % 4 = 0

is_leap_year(year) ==
    (year % 4 = 0 /\ year % 100 # 0) \/ (year % 400 = 0)

days_in_month(month, year) ==
    IF month = 2 /\ is_leap_year(year)
    THEN 29
    ELSE <<31, 28, 31, 30, 31, 30, 31, 31, 30, 31, 30, 31>>[month]

is_valid(day, month, year) ==
    IF month < 1 \/ month > 12 THEN FALSE
    ELSE IF day < 1 THEN FALSE
    ELSE day <= days_in_month(month, year)

\* SolarDate.__lt__ on (day, month, year) triples
SolarDate_lt(a, b) ==
    IF a[3] # b[3] THEN a[3] < b[3]
    ELSE IF a[2] # b[2] THEN a[2] < b[2]
    ELSE a[1] < b[1]

(***************************************************************************)
(* utils.py: Julian Day Number arithmetic.  Python's // is floor division, *)
(* as \div is.                                                             *)
(***************************************************************************)
\* first JDN of the Gregorian regime (1582-10-15)
GregorianStartJd == 2299161

\* jd_from_date without its Julian branch (lines 35-36 dropped)
jd_from_date_without_julian(dd, mm, yy) ==
    LET a == (14 - mm) \div 12
        y == yy + 4800 - a
        m == mm + 12 * a - 3
    IN  dd + ((153 * m + 2) \div 5) + 365 * y + (y \div 4)
           - (y \div 100) + (y \div 400) - 32045

jd_from_date(dd, mm, yy) ==
    LET a == (14 - mm) \div 12
        y == yy + 4800 - a
        m == mm + 12 * a - 3
        jd == dd + ((153 * m + 2) \div 5) + 365 * y + (y \div 4)
                 - (y \div 100) + (y \div 400) - 32045
    IN  IF jd < GregorianStartJd
        THEN dd + ((153 * m + 2) \div 5) + 365 * y + (y \div 4) - 32083
        ELSE jd

\* jd_to_date without its Julian branch (lines 55-57 dropped)
jd_to_date_no_julian(jd) ==
    LET a == jd + 32044
        b == (4 * a + 3) \div 146097
        c == a - (b * 146097) \div 4
        d == (4 * c + 3) \div 1461
        e == c - (1461 * d) \div 4
        m == (5 * e + 2) \div 153
    IN  << e - (153 * m + 2) \div 5 + 1,
           m + 3 - 12 * (m \div 10),
           b * 100 + d - 4800 + (m \div 10) >>

jd_to_date(jd) ==
    LET greg == jd > GregorianStartJd - 1
        a == jd + 32044
        b == IF greg THEN (4 * a + 3) \div 146097 ELSE 0
        c == IF greg THEN a - (b * 146097) \div 4 ELSE jd + 32082
        d == (4 * c + 3) \div 1461
        e == c - (1461 * d) \div 4
        m == (5 * e + 2) \div 153
        day == e - (153 * m + 2) \div 5 + 1
        month == m + 3 - 12 * (m \div 10)
        year == b * 100 + d - 4800 + (m \div 10)
    IN  <<day, month, year>>

(***************************************************************************)
(* data.py: the year-code table.  One packed code per year 1800..2099;     *)
(* the entries of the sampled years are listed, get_year_code signals a    *)
(* year outside the table with ValueError (what its callers catch).        *)
(***************************************************************************)
YearCodes ==
    1800 :> 3193507 @@ 1801 :> 5679952 @@ 1802 :> 4336544 @@
    2019 :> 4614448 @@ 2020 :> 3176756 @@ 2021 :> 5532320 @@
    2022 :> 4107600 @@ 2023 :> 2775890 @@ 2024 :> 5262176 @@
    2025 :> 3712742 @@ 2026 :> 6202592 @@
    2097 :> 5546704 @@ 2098 :> 4116816 @@ 2099 :> 2681170

get_year_code(year) ==
    IF year < 1800 \/ year > 2099
    THEN [kind |-> "ValueError"]
    ELSE [kind |-> "ok", code |-> YearCodes[year]]

(***************************************************************************)
(* converter.py: the lookup tier.                                          *)
(***************************************************************************)
\* x >> n and the lowest bit of x >> n, for x >= 0
shr(x, n) == x \div (2 ^ n)

bit(x, n) == shr(x, n) % 2

\* reg_month_lens filled from the lowest bit up: bit 4 for month 1
reg_month_lens_low_bit_first(year_code) ==
    LET j == shr(year_code, 4)
    IN  [idx \in 1..12 |-> IF bit(j, idx - 1) = 1 THEN 30 ELSE 29]

\* lines 164-169: reg_month_lens[m - 1], here indexed by m in 1..12
reg_month_lens(year_code) ==
    LET j == shr(year_code, 4)
    IN  [idx \in 1..12 |-> IF bit(j, 12 - idx) = 1 THEN 30 ELSE 29]

LunarMonthInfo(month, days, is_leap, jd_start) ==
    [month |-> month, days |-> days, is_leap |-> is_leap, jd_start |-> jd_start]

\* lines 171-181 with the leap month appended before its ordinary month
RECURSIVE append_months_leap_first(_, _, _, _, _, _)
append_months_leap_first(m, months, current_jd, lens, leap_month_idx, leap_month_len) ==
    IF m > 12 THEN months
    ELSE IF m = leap_month_idx
         THEN append_months_leap_first(m + 1,
                  months \o << LunarMonthInfo(m, leap_month_len, TRUE, current_jd),
                               LunarMonthInfo(m, lens[m], FALSE, current_jd + leap_month_len) >>,
                  current_jd + lens[m] + leap_month_len,
                  lens, leap_month_idx, leap_month_len)
         ELSE append_months_leap_first(m + 1,
                  Append(months, LunarMonthInfo(m, lens[m], FALSE, current_jd)),
                  current_jd + lens[m],
                  lens, leap_month_idx, leap_month_len)

\* lines 171-181: the loop over m = 1..12
RECURSIVE append_months(_, _, _, _, _, _)
append_months(m, months, current_jd, lens, leap_month_idx, leap_month_len) ==
    IF m > 12 THEN months
    ELSE LET days == lens[m]
             regular == Append(months, LunarMonthInfo(m, days, FALSE, current_jd))
         IN  IF m = leap_month_idx
             THEN append_months(m + 1,
                      Append(regular, LunarMonthInfo(m, leap_month_len, TRUE, current_jd + days)),
                      current_jd + days + leap_month_len,
                      lens, leap_month_idx, leap_month_len)
             ELSE append_months(m + 1, regular, current_jd + days,
                      lens, leap_month_idx, leap_month_len)

\* lines 152-183: decode of a year code into <<jd_tet, months>>
decode_year_code(year, year_code) ==
    LET offset_tet == shr(year_code, 17)
        jd_tet == jd_from_date(1, 1, year) + offset_tet
        leap_month_idx == year_code % 16
        leap_month_len == IF bit(year_code, 16) = 1 THEN 30 ELSE 29
    IN  << jd_tet,
           append_months(1, <<>>, jd_tet, reg_month_lens(year_code),
                         leap_month_idx, leap_month_len) >>

get_lunar_year_data(year) ==
    LET year_code == get_year_code(year)
    IN  IF year_code.kind = "ValueError"
        THEN << 0, <<>> >>
        ELSE decode_year_code(year, year_code.code)

\* lines 218-221 comparing with > in place of >=
RECURSIVE scan_reversed_strict(_, _, _, _)
scan_reversed_strict(months, i, day_jd, lunar_year) ==
    IF i = 0 THEN [kind |-> "None"]
    ELSE IF day_jd > months[i].jd_start
         THEN [kind |-> "ok",
               val |-> << day_jd - months[i].jd_start + 1, months[i].month,
                          lunar_year, months[i].is_leap >>]
         ELSE scan_reversed_strict(months, i - 1, day_jd, lunar_year)

\* lines 218-223: for m in reversed(months)
RECURSIVE scan_reversed(_, _, _, _)
scan_reversed(months, i, day_jd, lunar_year) ==
    IF i = 0 THEN [kind |-> "None"]
    ELSE IF day_jd >= months[i].jd_start
         THEN [kind |-> "ok",
               val |-> << day_jd - months[i].jd_start + 1, months[i].month,
                          lunar_year, months[i].is_leap >>]
         ELSE scan_reversed(months, i - 1, day_jd, lunar_year)

\* _solar_to_lunar_lookup without lines 205-212: a day before Tet is looked
\* for among the months of its own solar year
solar_to_lunar_lookup_without_previous_year(dd, mm, yy) ==
    scan_reversed(get_lunar_year_data(yy)[2], Len(get_lunar_year_data(yy)[2]),
                  jd_from_date(dd, mm, yy), yy)

\* the except ValueError clauses of lines 201 and 208 cannot fire:
\* get_lunar_year_data has already turned the ValueError into (0, [])
solar_to_lunar_lookup(dd, mm, yy) ==
    LET day_jd == jd_from_date(dd, mm, yy)
        cur == get_lunar_year_data(yy)
        jd_tet == cur[1]
    IN  IF day_jd < jd_tet
        THEN LET months_prev == get_lunar_year_data(yy - 1)[2]
             IN  scan_reversed(months_prev, Len(months_prev), day_jd, yy - 1)
        ELSE scan_reversed(cur[2], Len(cur[2]), day_jd, yy)

\* lines 233-244 accepting a day one past the month's length
RECURSIVE scan_forward_day_off_by_one(_, _, _, _, _)
scan_forward_day_off_by_one(months, i, dd, mm, leap) ==
    IF i > Len(months)
    THEN [kind |-> "DateNotExistError",
          why |-> IF leap THEN "not a leap month" ELSE "lookup failed"]
    ELSE IF months[i].month = mm /\ months[i].is_leap = leap
         THEN IF dd > months[i].days + 1
              THEN [kind |-> "DateNotExistError", why |-> "day"]
              ELSE [kind |-> "ok", val |-> jd_to_date(months[i].jd_start + dd - 1)]
         ELSE scan_forward_day_off_by_one(months, i + 1, dd, mm, leap)

\* lines 233-244: for m in months, then the two raises
RECURSIVE scan_forward(_, _, _, _, _)
scan_forward(months, i, dd, mm, leap) ==
    IF i > Len(months)
    THEN [kind |-> "DateNotExistError",
          why |-> IF leap THEN "not a leap month" ELSE "lookup failed"]
    ELSE IF months[i].month = mm /\ months[i].is_leap = leap
         THEN IF dd > months[i].days
              THEN [kind |-> "DateNotExistError", why |-> "day"]
              ELSE [kind |-> "ok", val |-> jd_to_date(months[i].jd_start + dd - 1)]
         ELSE scan_forward(months, i + 1, dd, mm, leap)

\* the except ValueError clause of line 230 cannot fire either, so the
\* function never returns None
lunar_to_solar_lookup(dd, mm, yy, leap) ==
    scan_forward(get_lunar_year_data(yy)[2], 1, dd, mm, leap)

(***************************************************************************)
(* utils.py: the astronomical primitives.  new_moon and sun_longitude are  *)
(* floating-point series; get_new_moon_day and get_sun_longitude are the   *)
(* values the functions return, tabulated for the lunations of the years   *)
(* the model explores (per timezone, in hours).                            *)
(***************************************************************************)
DEFAULT_TIMEZONE == 7

\* the timezone arguments explored: Vietnam's and UTC
Timezones == {DEFAULT_TIMEZONE, 0}

Range(f) == { f[x] : x \in DOMAIN f }

\* per timezone, runs of consecutive lunations: the index k of the first,
\* get_new_moon_day(k + i, timezone) and get_sun_longitude of that day
LunationTable ==
    7 :> <<
      [ first |-> (-1301),
        days |-> <<
          2376602, 2376631, 2376661, 2376691, 2376720, 2376750, 2376779, 2376808,
          2376838, 2376867, 2376897, 2376926, 2376956, 2376985, 2377015, 2377045,
          2377075, 2377104, 2377134, 2377163, 2377192, 2377222, 2377251, 2377280,
          2377310, 2377340, 2377369, 2377399, 2377429, 2377459, 2377488, 2377518,
          2377547, 2377577, 2377606, 2377635, 2377664, 2377694, 2377723, 2377753,
          2377783, 2377813, 2377842, 2377872, 2377902, 2377931, 2377960, 2377990,
          2378019, 2378048, 2378078, 2378107, 2378137, 2378167, 2378196, 2378226,
          2378256, 2378285, 2378315, 2378344, 2378374, 2378403, 2378433, 2378462,
          2378491, 2378521, 2378551, 2378580, 2378610, 2378639, 2378669, 2378699,
          2378728, 2378758, 2378787, 2378817, 2378846, 2378875, 2378905, 2378934,
          2378964, 2378994, 2379023, 2379053, 2379082, 2379112, 2379142, 2379171,
          2379201, 2379230, 2379260, 2379289, 2379318, 2379348, 2379377, 2379407,
          2379436, 2379466, 2379496, 2379525, 2379555, 2379585, 2379614, 2379644,
          2379673, 2379702, 2379732, 2379761, 2379791, 2379820, 2379850, 2379880,
          2379909, 2379939, 2379969, 2379998, 2380028, 2380057, 2380086, 2380116,
          2380145, 2380174, 2380204, 2380234, 2380263, 2380293, 2380323, 2380353,
          2380382, 2380412, 2380441, 2380470, 2380500, 2380529, 2380558, 2380588,
          2380617, 2380647, 2380677, 2380707, 2380736, 2380766, 2380796, 2380825,
          2380855 >>,
        segments |-> <<
          7, 7, 9, 10, 11, 0, 0, 1,
          2, 3, 4, 5, 6, 7, 8, 9,
          10, 11, 0, 1, 2, 3, 4, 5,
          6, 7, 8, 9, 10, 11, 0, 1,
          2, 3, 4, 4, 5, 6, 7, 8,
          9, 10, 11, 0, 1, 2, 3, 4,
          5, 6, 7, 8, 9, 10, 11, 0,
          1, 2, 3, 4, 5, 6, 7, 8,
          9, 10, 11, 0, 1, 2, 2, 3,
          4, 5, 6, 7, 8, 9, 10, 11,
          0, 1, 2, 3, 4, 5, 6, 7,
          8, 9, 10, 11, 0, 1, 2, 3,
          4, 5, 6, 7, 8, 9, 10, 11,
          0, 0, 1, 2, 3, 4, 5, 6,
          7, 8, 9, 10, 11, 0, 1, 2,
          3, 4, 5, 6, 7, 8, 9, 10,
          11, 0, 1, 2, 3, 4, 5, 5,
          6, 7, 8, 9, 10, 11, 0, 1,
          2 >> ],
      [ first |-> 1444,
        days |-> <<
          2457663, 2457693, 2457722, 2457752, 2457782, 2457811, 2457841, 2457870,
          2457900, 2457929, 2457958, 2457988, 2458017, 2458047, 2458076, 2458106,
          2458136, 2458166, 2458195, 2458225, 2458254, 2458284, 2458313, 2458342,
          2458372, 2458401, 2458430, 2458460, 2458490, 2458520, 2458549, 2458579,
          2458609, 2458638, 2458668, 2458697, 2458726, 2458756, 2458785, 2458814,
          2458844, 2458874, 2458903, 2458933, 2458963, 2458992, 2459022, 2459052,
          2459081, 2459110, 2459140, 2459169, 2459198, 2459228, 2459258, 2459287,
          2459317, 2459347, 2459376, 2459406, 2459435, 2459465, 2459494, 2459524,
          2459553, 2459583, 2459612, 2459642, 2459671, 2459701, 2459730, 2459760,
          2459790, 2459819, 2459849, 2459878, 2459908, 2459937, 2459967, 2459996,
          2460025, 2460055, 2460084, 2460114, 2460144, 2460173, 2460203, 2460233,
          2460262, 2460292, 2460321, 2460351, 2460380, 2460410, 2460439, 2460468,
          2460498, 2460527, 2460557, 2460587, 2460616, 2460646, 2460676, 2460705,
          2460735, 2460764, 2460794, 2460823, 2460852, 2460882, 2460911, 2460941,
          2460970, 2461000, 2461030, 2461060, 2461089, 2461119, 2461148, 2461178,
          2461207, 2461236, 2461265, 2461295, 2461324, 2461354, 2461384, 2461414,
          2461443, 2461473, 2461503, 2461532, 2461562, 2461591, 2461620, 2461650,
          2461679, 2461708, 2461738, 2461768, 2461797, 2461827, 2461857, 2461887,
          2461916, 2461946, 2461975, 2462004, 2462034, 2462063, 2462092, 2462122,
          2462152, 2462181, 2462211, 2462241, 2462270, 2462300, 2462329, 2462359,
          2462388, 2462418, 2462447, 2462476, 2462506, 2462535, 2462565, 2462595,
          2462624, 2462654 >>,
        segments |-> <<
          6, 7, 8, 9, 10, 11, 0, 1,
          2, 3, 4, 4, 5, 6, 7, 8,
          9, 10, 11, 0, 1, 2, 3, 4,
          5, 6, 7, 8, 9, 10, 11, 0,
          1, 2, 3, 4, 5, 6, 7, 8,
          9, 10, 11, 0, 1, 2, 2, 3,
          4, 5, 6, 7, 8, 9, 10, 11,
          0, 1, 2, 3, 4, 5, 6, 7,
          8, 9, 10, 11, 0, 1, 2, 3,
          4, 5, 6, 7, 8, 9, 10, 11,
          11, 0, 1, 2, 3, 4, 5, 6,
          7, 8, 9, 10, 11, 0, 1, 2,
          3, 4, 5, 6, 7, 8, 9, 10,
          11, 0, 1, 2, 3, 4, 4, 5,
          6, 7, 8, 9, 10, 11, 0, 1,
          2, 3, 4, 5, 6, 7, 8, 9,
          10, 11, 0, 1, 2, 3, 4, 5,
          6, 7, 8, 9, 10, 11, 0, 1,
          2, 3, 3, 4, 5, 6, 7, 8,
          9, 10, 11, 0, 1, 2, 3, 4,
          5, 6, 7, 8, 9, 10, 11, 0,
          1, 2 >> ],
      [ first |-> 2408,
        days |-> <<
          2486131, 2486160, 2486190, 2486220, 2486249, 2486279, 2486308, 2486337,
          2486367, 2486396, 2486426, 2486455, 2486485, 2486514, 2486544, 2486574,
          2486604, 2486633, 2486663, 2486692, 2486722, 2486751, 2486780, 2486809,
          2486839, 2486868, 2486898, 2486928, 2486958, 2486987, 2487017, 2487047,
          2487076, 2487106, 2487135, 2487164, 2487193, 2487223, 2487252, 2487282,
          2487312, 2487341, 2487371, 2487401, 2487431, 2487460, 2487490, 2487519,
          2487548, 2487577, 2487607, 2487636, 2487666, 2487695, 2487725, 2487755,
          2487785, 2487814, 2487844, 2487873, 2487903, 2487932, 2487962, 2487991,
          2488020, 2488050, 2488079, 2488109, 2488139, 2488168, 2488198, 2488228,
          2488257, 2488287, 2488316, 2488346, 2488375, 2488404, 2488434, 2488463,
          2488493, 2488523, 2488552, 2488582, 2488611, 2488641, 2488671, 2488700,
          2488730, 2488759, 2488788, 2488818, 2488847, 2488877, 2488906, 2488936,
          2488966, 2488995, 2489025, 2489054, 2489084, 2489114, 2489143, 2489173,
          2489202, 2489231, 2489261, 2489290, 2489320, 2489349, 2489379, 2489408,
          2489438, 2489468, 2489497, 2489527, 2489557, 2489586, 2489615, 2489645,
          2489674, 2489704, 2489733, 2489763, 2489792, 2489822, 2489852, 2489881,
          2489911, 2489941, 2489970, 2490000, 2490029, 2490058, 2490087, 2490117,
          2490146, 2490176, 2490206, 2490235, 2490265, 2490295, 2490325, 2490354,
          2490384, 2490413, 2490442, 2490471, 2490501, 2490530, 2490560, 2490589,
          2490619, 2490649, 2490679, 2490708, 2490738, 2490768 >>,
        segments |-> <<
          5, 6, 7, 8, 9, 10, 11, 0,
          1, 2, 3, 4, 5, 6, 7, 8,
          9, 10, 11, 0, 1, 2, 2, 3,
          4, 5, 6, 7, 8, 9, 10, 11,
          0, 1, 2, 3, 4, 5, 6, 7,
          8, 9, 10, 11, 0, 1, 2, 3,
          4, 5, 6, 7, 8, 9, 10, 11,
          0, 0, 1, 2, 3, 4, 5, 6,
          7, 8, 9, 10, 11, 0, 1, 2,
          3, 4, 5, 6, 7, 8, 9, 10,
          11, 0, 1, 2, 3, 4, 5, 5,
          6, 7, 8, 9, 10, 11, 0, 1,
          2, 3, 4, 5, 6, 7, 8, 9,
          10, 11, 0, 1, 2, 3, 4, 5,
          6, 7, 8, 9, 10, 11, 0, 1,
          2, 3, 3, 4, 5, 6, 7, 8,
          9, 10, 11, 0, 1, 2, 3, 4,
          5, 6, 7, 8, 9, 10, 11, 0,
          1, 2, 3, 4, 5, 6, 7, 8,
          9, 10, 11, 0, 1, 2 >> ] >>
    @@
    0 :> <<
      [ first |-> 1444,
        days |-> <<
          2457663, 2457692, 2457722, 2457752, 2457781, 2457811, 2457841, 2457870,
          2457899, 2457929, 2457958, 2457987, 2458017, 2458046, 2458076, 2458106,
          2458136, 2458165, 2458195, 2458225, 2458254, 2458283, 2458313, 2458342,
          2458371, 2458401, 2458430, 2458460, 2458490, 2458519, 2458549, 2458579,
          2458608, 2458638, 2458667, 2458697, 2458726, 2458755, 2458785, 2458814,
          2458844, 2458873, 2458903, 2458933, 2458963, 2458992, 2459022, 2459051,
          2459081, 2459110, 2459139, 2459169, 2459198, 2459228, 2459257, 2459287,
          2459317, 2459346, 2459376, 2459406, 2459435, 2459465, 2459494, 2459523,
          2459553, 2459582, 2459612, 2459641, 2459671, 2459700, 2459730, 2459760,
          2459789, 2459819, 2459848, 2459878, 2459907, 2459937, 2459966, 2459996,
          2460025, 2460055, 2460084, 2460114, 2460143, 2460173, 2460203, 2460232,
          2460262, 2460291, 2460321, 2460350, 2460380, 2460409, 2460439, 2460468,
          2460497, 2460527, 2460557, 2460586, 2460616, 2460646, 2460675, 2460705,
          2460735, 2460764, 2460793, 2460823, 2460852, 2460881, 2460911, 2460940,
          2460970, 2461000, 2461030, 2461059, 2461089, 2461119, 2461148, 2461177,
          2461207, 2461236, 2461265, 2461295, 2461324, 2461354, 2461384, 2461413,
          2461443, 2461473, 2461502, 2461532, 2461561, 2461591, 2461620, 2461649,
          2461679, 2461708, 2461738, 2461767, 2461797, 2461827, 2461857, 2461886,
          2461916, 2461945, 2461975, 2462004, 2462033, 2462063, 2462092, 2462122,
          2462151, 2462181, 2462211, 2462240, 2462270, 2462300, 2462329, 2462359,
          2462388, 2462417, 2462447, 2462476, 2462506, 2462535, 2462565, 2462594,
          2462624, 2462654 >>,
        segments |-> <<
          6, 7, 8, 9, 10, 11, 0, 1,
          2, 3, 4, 4, 5, 6, 7, 8,
          9, 10, 11, 0, 1, 2, 3, 4,
          5, 6, 7, 8, 9, 10, 11, 0,
          1, 2, 3, 4, 5, 6, 7, 8,
          9, 10, 11, 0, 1, 2, 3, 3,
          4, 5, 6, 7, 8, 9, 10, 11,
          0, 1, 2, 3, 4, 5, 6, 7,
          8, 9, 10, 11, 0, 1, 2, 3,
          4, 5, 6, 7, 8, 9, 10, 11,
          0, 0, 1, 2, 3, 4, 5, 6,
          7, 8, 9, 10, 11, 0, 1, 2,
          3, 4, 5, 6, 7, 8, 9, 10,
          11, 0, 1, 2, 3, 4, 5, 5,
          6, 7, 8, 9, 10, 11, 0, 1,
          2, 3, 4, 5, 6, 7, 8, 9,
          10, 11, 0, 1, 2, 3, 4, 5,
          6, 7, 8, 9, 10, 11, 0, 1,
          2, 3, 3, 4, 5, 6, 7, 8,
          9, 10, 11, 0, 1, 2, 3, 4,
          5, 6, 7, 8, 9, 10, 11, 0,
          1, 2 >> ],
      [ first |-> 2408,
        days |-> <<
          2486130, 2486160, 2486190, 2486219, 2486249, 2486278, 2486308, 2486337,
          2486367, 2486396, 2486425, 2486455, 2486484, 2486514, 2486544, 2486574,
          2486603, 2486633, 2486662, 2486692, 2486721, 2486751, 2486780, 2486809,
          2486839, 2486868, 2486898, 2486928, 2486957, 2486987, 2487017, 2487046,
          2487076, 2487105, 2487135, 2487164, 2487193, 2487223, 2487252, 2487282,
          2487311, 2487341, 2487371, 2487401, 2487430, 2487460, 2487489, 2487519,
          2487548, 2487577, 2487606, 2487636, 2487665, 2487695, 2487725, 2487755,
          2487784, 2487814, 2487844, 2487873, 2487903, 2487932, 2487961, 2487991,
          2488020, 2488049, 2488079, 2488109, 2488138, 2488168, 2488198, 2488227,
          2488257, 2488286, 2488316, 2488345, 2488375, 2488404, 2488433, 2488463,
          2488493, 2488522, 2488552, 2488582, 2488611, 2488641, 2488670, 2488700,
          2488729, 2488759, 2488788, 2488818, 2488847, 2488877, 2488906, 2488936,
          2488965, 2488995, 2489024, 2489054, 2489084, 2489113, 2489143, 2489172,
          2489202, 2489231, 2489260, 2489290, 2489319, 2489349, 2489379, 2489408,
          2489438, 2489467, 2489497, 2489527, 2489556, 2489586, 2489615, 2489645,
          2489674, 2489703, 2489733, 2489762, 2489792, 2489822, 2489851, 2489881,
          2489911, 2489940, 2489970, 2489999, 2490029, 2490058, 2490087, 2490117,
          2490146, 2490176, 2490205, 2490235, 2490265, 2490295, 2490324, 2490354,
          2490383, 2490413, 2490442, 2490471, 2490500, 2490530, 2490559, 2490589,
          2490619, 2490649, 2490678, 2490708, 2490738, 2490767 >>,
        segments |-> <<
          5, 6, 7, 8, 9, 10, 11, 0,
          1, 2, 3, 4, 5, 6, 7, 8,
          9, 10, 11, 0, 1, 2, 2, 3,
          4, 5, 6, 7, 8, 9, 10, 11,
          0, 1, 2, 3, 4, 5, 6, 7,
          8, 9, 10, 11, 0, 1, 2, 3,
          4, 5, 6, 7, 8, 9, 10, 11,
          0, 1, 1, 2, 3, 4, 5, 6,
          7, 8, 9, 10, 11, 0, 1, 2,
          3, 4, 5, 6, 7, 8, 9, 10,
          11, 0, 1, 2, 3, 4, 5, 5,
          6, 7, 8, 9, 10, 11, 0, 1,
          2, 3, 4, 5, 6, 7, 8, 9,
          10, 11, 0, 1, 2, 3, 4, 5,
          6, 7, 8, 9, 10, 11, 0, 1,
          2, 3, 3, 4, 5, 6, 7, 8,
          9, 10, 11, 0, 1, 2, 3, 4,
          5, 6, 7, 8, 9, 10, 11, 0,
          1, 2, 3, 4, 5, 6, 7, 8,
          9, 10, 11, 0, 1, 2 >> ] >>

get_new_moon_day(k, timezone) ==
    LET run == CHOOSE r \in Range(LunationTable[timezone]) :
                   k >= r.first /\ k < r.first + Len(r.days)
    IN  run.days[k - run.first + 1]

get_sun_longitude(day_number, timezone) ==
    LET run == CHOOSE r \in Range(LunationTable[timezone]) :
                   day_number >= r.days[1] /\ day_number <= r.days[Len(r.days)]
        i0 == ((day_number - run.days[1]) * 1000) \div 29531 + 1
        i == CHOOSE j \in (i0 - 1)..(i0 + 2) :
                 j >= 1 /\ j <= Len(run.days) /\ run.days[j] = day_number
    IN  run.segments[i]

(***************************************************************************)
(* int(x / 29.530588853) on exact decimals.  A quantity is a pair          *)
(* <<i, f>> standing for i + f / 10^9 with 0 <= f < 10^9; int() truncates  *)
(* toward zero.                                                            *)
(***************************************************************************)
Nano == 1000000000

nano_norm(i, f) == << i + (f \div Nano), f % Nano >>

nano_leq(a, b) == a[1] < b[1] \/ (a[1] = b[1] /\ a[2] <= b[2])

nano_add(a, b) == nano_norm(a[1] + b[1], a[2] + b[2])

\* n * 29.530588853 = 29 n + 0.530 n + 0.000588 n + 0.000000853 n
synodic_times(n) ==
    LET milli == n * 530
        micro == n * 588
    IN  nano_add(nano_add(<< 29 * n + (milli \div 1000), (milli % 1000) * 1000000 >>,
                          << micro \div 1000000, (micro % 1000000) * 1000 >>),
                 nano_norm(0, n * 853))

\* floor(x / (s * 29.530588853))
floor_quot(x, s) ==
    LET k0 == (x[1] * 1000) \div (29531 * s)
    IN  CHOOSE k \in (k0 - 2)..(k0 + 2) :
            /\ nano_leq(synodic_times(s * k), x)
            /\ ~ nano_leq(synodic_times(s * (k + 1)), x)

\* int(q) for q = x / (s * 29.530588853) whose floor is k: truncation toward zero
trunc_toward_zero(x, s, k) ==
    IF x[1] < 0 /\ synodic_times(s * k) # x THEN k + 1 ELSE k

\* int(x / (s * 29.530588853))
int_quot(x, s) == trunc_toward_zero(x, s, floor_quot(x, s))

\* int((day_number - 2415021.076998695) / 29.530588853)
lunation_index(day_number) ==
    int_quot(<< day_number - 2415022, 923001305 >>, 1)

\* int((a11 - 2415021.076998695) / 29.530588853 + 0.5), computed as
\* int((2 * (a11 - 2415021.076998695) + 29.530588853) / (2 * 29.530588853))
lunation_index_rounded(a11) ==
    int_quot(nano_norm(2 * (a11 - 2415022) + 1 + 29, 846002610 + 530588853), 2)

\* int(n / 29) for integers
int_div(n, d) == IF n >= 0 THEN n \div d ELSE 0 - ((0 - n) \div d)

(***************************************************************************)
(* converter.py: the astronomical tier.  The longer functions are split    *)
(* at their statements; a value computed by one part is handed to the next *)
(* as a parameter.                                                         *)
(***************************************************************************)
\* lines 30-36, k being the lunation of line 29
lunar_month_11_at(k, timezone) ==
    LET nm == get_new_moon_day(k, timezone)
        sun_long == get_sun_longitude(nm, timezone)
    IN  IF sun_long >= 9 THEN get_new_moon_day(k - 1, timezone) ELSE nm

get_lunar_month_11(year, timezone) ==
    lunar_month_11_at(int_quot(<< jd_from_date(31, 12, year) - 2415021, 0 >>, 1),
                      timezone)

\* lines 46-54: while i < 14
RECURSIVE leap_scan(_, _, _, _)
leap_scan(k, i, last, timezone) ==
    IF i >= 14 THEN 0
    ELSE LET nm == get_new_moon_day(k + i, timezone)
             arc == get_sun_longitude(nm, timezone)
         IN  IF i > 1 /\ arc = last THEN i - 1
             ELSE leap_scan(k, i + 1, arc, timezone)

\* lines 43-54, k being the lunation of line 42
leap_month_offset_at(k, timezone) ==
    leap_scan(k, 1, get_sun_longitude(get_new_moon_day(k, timezone), timezone),
              timezone)

get_leap_month_offset(a11, timezone) ==
    leap_month_offset_at(lunation_index_rounded(a11), timezone)

\* lines 61-64
astro_month_start(day_number, k, timezone) ==
    IF get_new_moon_day(k + 1, timezone) > day_number
    THEN get_new_moon_day(k, timezone)
    ELSE get_new_moon_day(k + 1, timezone)

\* lines 66-74, a11 being get_lunar_month_11(yy, timezone)
astro_year_bounds(month_start, a11, yy, timezone) ==
    IF a11 >= month_start
    THEN [a11 |-> get_lunar_month_11(yy - 1, timezone), b11 |-> a11,
          lunar_year |-> yy]
    ELSE [a11 |-> a11, b11 |-> get_lunar_month_11(yy + 1, timezone),
          lunar_year |-> yy + 1]

\* lines 76-94; leap_month_diff is get_leap_month_offset(a11, timezone),
\* looked at only when b11 - a11 > 365
astro_lunar_date(day_number, month_start, a11, b11, lunar_year, leap_month_diff) ==
    LET lunar_day == day_number - month_start + 1
        diff == int_div(month_start - a11, 29)
        has_leap == b11 - a11 > 365
        lunar_leap == has_leap /\ diff = leap_month_diff
        lunar_month_0 == IF has_leap /\ diff >= leap_month_diff
                         THEN diff + 10 ELSE diff + 11
        lunar_month == IF lunar_month_0 > 12 THEN lunar_month_0 - 12 ELSE lunar_month_0
    IN  [kind |-> "ok",
         val |-> << lunar_day, lunar_month,
                    IF lunar_month >= 11 /\ diff < 4 THEN lunar_year - 1 ELSE lunar_year,
                    lunar_leap >>]

\* lines 66-94
astro_lunar_date_in(day_number, month_start, bounds, timezone) ==
    astro_lunar_date(day_number, month_start, bounds.a11, bounds.b11,
                     bounds.lunar_year, get_leap_month_offset(bounds.a11, timezone))

\* lines 60-94
astro_lunar_date_of(day_number, yy, month_start, timezone) ==
    astro_lunar_date_in(day_number, month_start,
        astro_year_bounds(month_start, get_lunar_month_11(yy, timezone), yy, timezone),
        timezone)

solar_to_lunar_astro(dd, mm, yy, timezone) ==
    LET day_number == jd_from_date(dd, mm, yy)
    IN  astro_lunar_date_of(day_number, yy,
            astro_month_start(day_number, lunation_index(day_number), timezone),
            timezone)

\* lines 106-126: the lunation number k + off of the requested month, or
\* the DateNotExistError raised for a leap month the year does not have;
\* leap_off is get_leap_month_offset(a11, timezone), looked at only when
\* b11 - a11 > 365
astro_target_lunation(mm, leap, a11, b11, k, leap_off) ==
    LET off == IF mm - 11 < 0 THEN mm - 11 + 12 ELSE mm - 11
        leap_month == IF leap_off - 2 < 0 THEN leap_off - 2 + 12 ELSE leap_off - 2
    IN  IF b11 - a11 > 365
        THEN IF leap /\ mm # leap_month
             THEN [kind |-> "DateNotExistError", why |-> "not a leap month"]
             ELSE [kind |-> "ok",
                   lunation |-> IF leap \/ off >= leap_off THEN k + off + 1 ELSE k + off]
        ELSE IF leap
             THEN [kind |-> "DateNotExistError", why |-> "not a leap year"]
             ELSE [kind |-> "ok", lunation |-> k + off]

\* lines 99-126, a11 and b11 being those of lines 99-104
astro_month_lunation_in(mm, leap, a11, b11, timezone) ==
    astro_target_lunation(mm, leap, a11, b11, lunation_index_rounded(a11),
                          get_leap_month_offset(a11, timezone))

\* lines 99-126
astro_month_lunation(mm, yy, leap, timezone) ==
    astro_month_lunation_in(mm, leap,
        get_lunar_month_11(IF mm < 11 THEN yy - 1 ELSE yy, timezone),
        get_lunar_month_11(IF mm < 11 THEN yy ELSE yy + 1, timezone),
        timezone)

\* lines 126-127 (or the exception of lines 118 and 124)
astro_solar_date(dd, target, timezone) ==
    IF target.kind = "DateNotExistError" THEN target
    ELSE [kind |-> "ok",
          val |-> jd_to_date(get_new_moon_day(target.lunation, timezone) + dd - 1)]

lunar_to_solar_astro(dd, mm, yy, leap, timezone) ==
    astro_solar_date(dd, astro_month_lunation(mm, yy, leap, timezone), timezone)

(***************************************************************************)
(* converter.py: the public API.  A result carries the tier that produced  *)
(* it; an exception raised by the lookup tier propagates to the caller.    *)
(***************************************************************************)
with_tier(r, tier) ==
    IF r.kind = "ok"
    THEN [kind |-> "ok", val |-> r.val, tier |-> tier]
    ELSE [kind |-> r.kind, why |-> r.why, tier |-> tier]

\* solar_to_lunar without the lookup attempt
solar_to_lunar_astro_only(dd, mm, yy, timezone) ==
    with_tier(solar_to_lunar_astro(dd, mm, yy, timezone), "astro")

\* solar_to_lunar consulting the table only for the default timezone
solar_to_lunar_lookup_for_default_timezone(dd, mm, yy, timezone) ==
    LET res_lookup == solar_to_lunar_lookup(dd, mm, yy)
    IN  IF timezone = DEFAULT_TIMEZONE /\ res_lookup.kind # "None"
        THEN with_tier(res_lookup, "lookup")
        ELSE with_tier(solar_to_lunar_astro(dd, mm, yy, timezone), "astro")

solar_to_lunar(dd, mm, yy, timezone) ==
    LET res_lookup == solar_to_lunar_lookup(dd, mm, yy)
    IN  IF res_lookup.kind # "None"
        THEN with_tier(res_lookup, "lookup")
        ELSE with_tier(solar_to_lunar_astro(dd, mm, yy, timezone), "astro")

lunar_to_solar(day, month, year, leap, timezone) ==
    LET res_lookup == lunar_to_solar_lookup(day, month, year, leap)
    IN  IF res_lookup.kind # "None"
        THEN with_tier(res_lookup, "lookup")
        ELSE with_tier(lunar_to_solar_astro(day, month, year, leap, timezone), "astro")

(***************************************************************************)
(* constants.py and lucky_hours.py.  Names are spelled without diacritics  *)
(* (the sixth branch as "Ti" to keep it apart from the first, "Ty"); a     *)
(* pattern string is the sequence of its digits.                           *)
(***************************************************************************)
CAN == << "Giap", "At", "Binh", "Dinh", "Mau", "Ky", "Canh", "Tan", "Nham", "Quy" >>

CHI == << "Ty", "Suu", "Dan", "Mao", "Thin", "Ti",
          "Ngo", "Mui", "Than", "Dau", "Tuat", "Hoi" >>

\* the patterns with a seventh lucky hour in the first
GIO_HOANG_DAO_seven_in_first ==
    << << 1, 1, 0, 1, 0, 0, 1, 0, 1, 1, 0, 1 >>,
       << 0, 0, 1, 1, 0, 1, 0, 0, 1, 0, 1, 1 >>,
       << 1, 1, 0, 0, 1, 1, 0, 1, 0, 0, 1, 0 >>,
       << 1, 0, 1, 1, 0, 0, 1, 1, 0, 1, 0, 0 >>,
       << 0, 0, 1, 0, 1, 1, 0, 0, 1, 1, 0, 1 >>,
       << 0, 1, 0, 0, 1, 0, 1, 1, 0, 0, 1, 1 >> >>

\* indexed by chi_of_day % 6 + 1
GIO_HOANG_DAO ==
    << << 1, 1, 0, 1, 0, 0, 1, 0, 1, 1, 0, 0 >>,
       << 0, 0, 1, 1, 0, 1, 0, 0, 1, 0, 1, 1 >>,
       << 1, 1, 0, 0, 1, 1, 0, 1, 0, 0, 1, 0 >>,
       << 1, 0, 1, 1, 0, 0, 1, 1, 0, 1, 0, 0 >>,
       << 0, 0, 1, 0, 1, 1, 0, 0, 1, 1, 0, 1 >>,
       << 0, 1, 0, 0, 1, 0, 1, 1, 0, 0, 1, 1 >> >>

HOUR_RANGES ==
    << <<23, 1>>, <<1, 3>>, <<3, 5>>, <<5, 7>>, <<7, 9>>, <<9, 11>>,
       <<11, 13>>, <<13, 15>>, <<15, 17>>, <<17, 19>>, <<19, 21>>, <<21, 23>> >>

get_lucky_hours(jd) ==
    LET chi_of_day == (jd + 1) % 12
        pattern == GIO_HOANG_DAO[(chi_of_day % 6) + 1]
    IN  [ i \in 1..12 |->
            [name |-> CHI[i], start |-> HOUR_RANGES[i][1], end |-> HOUR_RANGES[i][2],
             is_lucky |-> pattern[i] = 1] ]

\* [h['name'] for h in hours if h['is_lucky']]
RECURSIVE lucky_names(_, _)
lucky_names(hours, i) ==
    IF i > Len(hours) THEN << >>
    ELSE IF hours[i].is_lucky
         THEN << hours[i].name >> \o lucky_names(hours, i + 1)
         ELSE lucky_names(hours, i + 1)

get_lucky_hour_names(jd) == lucky_names(get_lucky_hours(jd), 1)

(***************************************************************************)
(* utils.py: sun_longitude in fixed point, and solar_terms.py.  Angles are *)
(* hundredths of a degree, time is hours.  The mean longitude L0 is        *)
(* computed from the day; the sine series DL (the equation of centre,      *)
(* below 1.97 degrees in size for the years explored) is an argument drawn *)
(* from its range.  pi / 180 scales both sides of the normalisation, so    *)
(* 2 * pi is 360 degrees and L / pi * 6 is L / 30 degrees.                 *)
(***************************************************************************)
EquationOfCentreMax == 200

TIET_KHI ==
    << "Xuan phan", "Thanh minh", "Coc vu", "Lap ha", "Tieu man", "Mang chung",
       "Ha chi", "Tieu thu", "Dai thu", "Lap thu", "Xu thu", "Bach lo",
       "Thu phan", "Han lo", "Suong giang", "Lap dong", "Tieu tuyet", "Dai tuyet",
       "Dong chi", "Tieu han", "Dai han", "Lap xuan", "Vu thuy", "Kinh trap" >>

\* lines 136 and 140 at jd = day_number - 0.5 - timezone / 24:
\* 280.46645 + 36000.76983 * T + 0.0003032 * T2, 4.106864 per hour
sun_longitude_mean(day_number, timezone) ==
    LET hours == 24 * (day_number - 2451545) - 12 - timezone
        centuries == hours \div 876600
    IN  28047 + 4 * hours + ((hours * 106) \div 1000) + ((hours * 86) \div 100000)
              + ((hours * 4) \div 1000000) + ((3 * centuries * centuries) \div 100)

\* line 148 without lines 150-152 (no "if L < 0")
sun_longitude_normalised_unsigned(L) == L - 36000 * int_div(L, 36000)

\* lines 148-152: L - 2 * pi * int(L / (2 * pi)), made positive
sun_longitude_normalised(L) ==
    IF L - 36000 * int_div(L, 36000) < 0
    THEN L - 36000 * int_div(L, 36000) + 36000
    ELSE L - 36000 * int_div(L, 36000)

\* line 164 for a sine series worth DL
sun_longitude_segment(day_number, timezone, DL) ==
    int_div(sun_longitude_normalised(sun_longitude_mean(day_number, timezone) + DL), 3000)

(***************************************************************************)
(* canchi.py: the double-hour of a clock hour.  A name "can chi" is the    *)
(* pair of its two words.                                                  *)
(***************************************************************************)
CANCHI_HOUR_RANGES ==
    << [chi |-> "Ty", start |-> "23:00", end |-> "01:00"],
       [chi |-> "Suu", start |-> "01:00", end |-> "03:00"],
       [chi |-> "Dan", start |-> "03:00", end |-> "05:00"],
       [chi |-> "Mao", start |-> "05:00", end |-> "07:00"],
       [chi |-> "Thin", start |-> "07:00", end |-> "09:00"],
       [chi |-> "Ti", start |-> "09:00", end |-> "11:00"],
       [chi |-> "Ngo", start |-> "11:00", end |-> "13:00"],
       [chi |-> "Mui", start |-> "13:00", end |-> "15:00"],
       [chi |-> "Than", start |-> "15:00", end |-> "17:00"],
       [chi |-> "Dau", start |-> "17:00", end |-> "19:00"],
       [chi |-> "Tuat", start |-> "19:00", end |-> "21:00"],
       [chi |-> "Hoi", start |-> "21:00", end |-> "23:00"] >>

\* day_name with the branch taken modulo 10, as the stem is
day_name_branch_modulo_ten(jd) ==
    << CAN[((jd + 9) % 10) + 1], CHI[((jd + 1) % 10) + 1] >>

\* lines 81-83
day_name(jd) ==
    << CAN[((jd + 9) % 10) + 1], CHI[((jd + 1) % 12) + 1] >>

hour_chi_index(hour) ==
    IF ~ (0 <= hour /\ hour <= 23)
    THEN [kind |-> "ValueError"]
    ELSE [kind |-> "ok", val |-> ((hour + 1) \div 2) % 12]

\* lines 167-189, jd being the day number after the step of lines 164-165
hour_info_of_day(hour, jd) ==
    LET chi_idx == hour_chi_index(hour).val
        ty_can_idx == ((jd - 1) * 2) % 10
        can_idx == (ty_can_idx + chi_idx) % 10
        day_chi_idx == (jd + 1) % 12
        pattern == GIO_HOANG_DAO[(day_chi_idx % 6) + 1]
        hr == CANCHI_HOUR_RANGES[chi_idx + 1]
    IN  [kind |-> "ok",
         can |-> CAN[can_idx + 1],
         chi |-> CHI[chi_idx + 1],
         name |-> << CAN[can_idx + 1], CHI[chi_idx + 1] >>,
         start |-> hr.start,
         end |-> hr.end,
         is_lucky |-> pattern[chi_idx + 1] = 1]

\* get_hour_info without the step of lines 164-165: hour 23 stays on its own day
get_hour_info_same_day(hour, dd, mm, yy) ==
    IF ~ (0 <= hour /\ hour <= 23)
    THEN [kind |-> "ValueError"]
    ELSE hour_info_of_day(hour, jd_from_date(dd, mm, yy))

get_hour_info(hour, dd, mm, yy) ==
    IF ~ (0 <= hour /\ hour <= 23)
    THEN [kind |-> "ValueError"]
    ELSE hour_info_of_day(hour, IF hour >= 23 THEN jd_from_date(dd, mm, yy) + 1
                                ELSE jd_from_date(dd, mm, yy))

(***************************************************************************)
(* lunar.py and solar.py: the date classes.  A LunarDate is the record of  *)
(* its four fields, a SolarDate the triple (day, month, year); a           *)
(* constructor returns the value or the exception __post_init__ raises.    *)
(***************************************************************************)
SolarDate(day, month, year) ==
    IF ~ is_valid(day, month, year)
    THEN [kind |-> "DateNotExistError", why |-> "Invalid solar date"]
    ELSE [kind |-> "ok", val |-> << day, month, year >>]

\* SolarDate.from_jd(jd): lines 66-69
SolarDate_from_jd(jd) ==
    SolarDate(jd_to_date(jd)[1], jd_to_date(jd)[2], jd_to_date(jd)[3])

LunarDate(day, month, year, is_leap) ==
    IF ~ (1 <= month /\ month <= 12)
    THEN [kind |-> "DateNotExistError", why |-> "Invalid lunar month"]
    ELSE IF ~ (1 <= day /\ day <= 30)
         THEN [kind |-> "DateNotExistError", why |-> "Invalid lunar day"]
         ELSE [kind |-> "ok",
               val |-> [day |-> day, month |-> month, year |-> year, is_leap |-> is_leap]]

\* @dataclass(frozen=True): an assignment to a field raises and leaves the
\* object as it was
frozen_setattr(object, field, value) ==
    [kind |-> "FrozenInstanceError", object |-> object]

\* LunarDate.to_solar_date: lunar_to_solar, then the SolarDate constructor
to_solar_date(self, timezone) ==
    LET converted == lunar_to_solar(self.day, self.month, self.year, self.is_leap, timezone)
    IN  IF converted.kind # "ok"
        THEN [kind |-> converted.kind, why |-> converted.why]
        ELSE SolarDate(converted.val[1], converted.val[2], converted.val[3])

\* LunarDate.__lt__ with a leap month sorted before its ordinary month
LunarDate_lt_leap_first(self, other) ==
    IF self.year # other.year THEN self.year < other.year
    ELSE IF self.month # other.month THEN self.month < other.month
    ELSE IF self.is_leap # other.is_leap THEN self.is_leap
    ELSE self.day < other.day

LunarDate_lt(self, other) ==
    IF self.year # other.year THEN self.year < other.year
    ELSE IF self.month # other.month THEN self.month < other.month
    ELSE IF self.is_leap # other.is_leap THEN ~ self.is_leap
    ELSE self.day < other.day

\* the dataclass's generated __eq__: the tuples of fields are equal
LunarDate_eq(self, other) ==
    << self.day, self.month, self.year, self.is_leap >>
        = << other.day, other.month, other.year, other.is_leap >>

LunarDate_le(self, other) == LunarDate_lt(self, other) \/ LunarDate_eq(self, other)

LunarDate_gt(self, other) == ~ LunarDate_le(self, other)

LunarDate_ge(self, other) == ~ LunarDate_lt(self, other)

(***************************************************************************)
(* The memoized functions: @lru_cache on new_moon (utils.py),              *)
(* get_lunar_month_11 and get_leap_month_offset (converter.py).  A cache   *)
(* is a sequence of entries, least recently used first.  A call looks its  *)
(* key up; on a miss it runs the function, without holding any lock, and   *)
(* then stores the result.                                                 *)
(***************************************************************************)
\* new_moon(k) for the lunations of 2022 and 2023, as <<whole days, millionths>>
NewMoonTable ==
    [ first |-> 1518,
      values |-> <<
          <<2459848, 397225>>, <<2459877, 962438>>, <<2459907, 486990>>, <<2459936, 954709>>,
          <<2459966, 372484>>, <<2459995, 772385>>, <<2460025, 194478>>, <<2460054, 663206>>,
          <<2460084, 177783>>, <<2460113, 724559>>, <<2460143, 296983>>, <<2460172, 901547>>,
          <<2460202, 544565>>, <<2460232, 214779>>, <<2460261, 878995>>, <<2460291, 494689>>,
          <<2460321, 30791>>, <<2460350, 483144>> >> ]

new_moon(k) == NewMoonTable.values[k - NewMoonTable.first + 1]

\* the arguments get_lunar_month_11 passes to new_moon (through
\* get_new_moon_day), in call order
lunar_month_11_new_moons(k, timezone) ==
    IF get_sun_longitude(get_new_moon_day(k, timezone), timezone) >= 9
    THEN << k, k - 1 >>
    ELSE << k >>

\* the arguments get_leap_month_offset passes to new_moon, in call order:
\* k, then k + i for i = 1 .. the last i the loop reaches
leap_month_offset_new_moons(k, offset) ==
    [ j \in 1..((IF offset = 0 THEN 13 ELSE offset + 1) + 1) |-> k + j - 1 ]

\* the solar years whose month 11 the callers ask for
CacheYears == {2022}

Callers == 1..NumCallers

MemoizedCalls ==
    { [fn |-> "get_lunar_month_11", args |-> << yy, tz >>] :
        yy \in CacheYears, tz \in Timezones }
    \cup { [fn |-> "get_leap_month_offset",
            args |-> << get_lunar_month_11(yy, DEFAULT_TIMEZONE), tz >>] :
              yy \in CacheYears, tz \in Timezones }
    \cup { [fn |-> "new_moon", args |-> << lunation_index_rounded(
                      get_lunar_month_11(yy, DEFAULT_TIMEZONE)) >>] :
              yy \in CacheYears }

\* what the undecorated function returns
uncached(call) ==
    CASE call.fn = "new_moon" -> new_moon(call.args[1])
      [] call.fn = "get_lunar_month_11" -> get_lunar_month_11(call.args[1], call.args[2])
      [] call.fn = "get_leap_month_offset" ->
             get_leap_month_offset(call.args[1], call.args[2])

Uncached == [ call \in MemoizedCalls |-> uncached(call) ]

\* the new_moon arguments a run of the function goes through
nested_new_moons(call) ==
    CASE call.fn = "new_moon" -> << >>
      [] call.fn = "get_lunar_month_11" ->
             lunar_month_11_new_moons(
                 int_quot(<< jd_from_date(31, 12, call.args[1]) - 2415021, 0 >>, 1),
                 call.args[2])
      [] call.fn = "get_leap_month_offset" ->
             leap_month_offset_new_moons(lunation_index_rounded(call.args[1]),
                                         Uncached[call])

NestedNewMoons == [ call \in MemoizedCalls |-> nested_new_moons(call) ]

\* a key made of the first argument alone
cache_key_first_argument(args) == << args[1] >>

\* lru_cache's key: all the positional arguments
cache_key(args) == args

cache_entry(args, val) == [key |-> cache_key(args), args |-> args, val |-> val]

lru_find(entries, key) == { i \in DOMAIN entries : entries[i].key = key }

\* a hit makes the entry the most recently used
lru_touch(entries, i) ==
    SubSeq(entries, 1, i - 1) \o SubSeq(entries, i + 1, Len(entries)) \o << entries[i] >>

\* the store after a miss: nothing if another caller has stored the key
\* meanwhile, else the least recently used entry makes room in a full cache
lru_insert(entries, e) ==
    IF lru_find(entries, e.key) # {} THEN entries
    ELSE IF Len(entries) >= CacheCapacity THEN Append(Tail(entries), e)
    ELSE Append(entries, e)

\* one whole call of a memoized function that calls nothing memoized
lru_call(entries, e) ==
    IF lru_find(entries, e.key) # {}
    THEN lru_touch(entries, CHOOSE i \in lru_find(entries, e.key) : TRUE)
    ELSE lru_insert(entries, e)

RECURSIVE lru_new_moon_calls(_, _, _)
lru_new_moon_calls(entries, ks, j) ==
    IF j > Len(ks) THEN entries
    ELSE lru_new_moon_calls(lru_call(entries, cache_entry(<< ks[j] >>, new_moon(ks[j]))),
                            ks, j + 1)

EmptyCache ==
    [ fn \in {"new_moon", "get_lunar_month_11", "get_leap_month_offset"} |-> << >> ]

IdleCaller == [pc |-> "idle"]

(***************************************************************************)
(* solar_terms.py: the solar terms of a year.  get_sun_longitude is        *)
(* tabulated here for every day of the years scanned: per timezone, spans  *)
(* of days with the first day of each run of equal segments.               *)
(***************************************************************************)
SunSegmentTable ==
    7 :> <<
      [ from |-> 2459946, to |-> 2460677,
        starts |-> <<
          2459946, 2459966, 2459996, 2460026, 2460056, 2460087, 2460118, 2460150,
          2460181, 2460212, 2460242, 2460272, 2460302, 2460331, 2460361, 2460391,
          2460421, 2460452, 2460484, 2460515, 2460546, 2460577, 2460608, 2460638,
          2460667 >>,
        segments |-> <<
          9, 10, 11, 0, 1, 2, 3, 4,
          5, 6, 7, 8, 9, 10, 11, 0,
          1, 2, 3, 4, 5, 6, 7, 8,
          9 >> ],
      [ from |-> 2488070, to |-> 2488435,
        starts |-> <<
          2488070, 2488090, 2488119, 2488149, 2488180, 2488211, 2488242, 2488273,
          2488305, 2488336, 2488366, 2488396, 2488426 >>,
        segments |-> <<
          9, 10, 11, 0, 1, 2, 3, 4,
          5, 6, 7, 8, 9 >> ] >>
    @@
    0 :> <<
      [ from |-> 2459946, to |-> 2460677,
        starts |-> <<
          2459946, 2459966, 2459995, 2460025, 2460056, 2460087, 2460118, 2460150,
          2460181, 2460212, 2460242, 2460272, 2460302, 2460331, 2460361, 2460391,
          2460421, 2460452, 2460483, 2460515, 2460546, 2460577, 2460607, 2460637,
          2460667 >>,
        segments |-> <<
          9, 10, 11, 0, 1, 2, 3, 4,
          5, 6, 7, 8, 9, 10, 11, 0,
          1, 2, 3, 4, 5, 6, 7, 8,
          9 >> ],
      [ from |-> 2488070, to |-> 2488435,
        starts |-> <<
          2488070, 2488090, 2488119, 2488149, 2488179, 2488210, 2488242, 2488273,
          2488304, 2488335, 2488366, 2488396, 2488425 >>,
        segments |-> <<
          9, 10, 11, 0, 1, 2, 3, 4,
          5, 6, 7, 8, 9 >> ] >>

\* get_sun_longitude(day_number, timezone) for a day of a tabulated span
get_sun_longitude_of_day(day_number, timezone) ==
    LET span == CHOOSE r \in Range(SunSegmentTable[timezone]) :
                    day_number >= r.from /\ day_number <= r.to
        i == CHOOSE j \in 1..Len(span.starts) :
                 /\ span.starts[j] <= day_number
                 /\ (j = Len(span.starts) \/ span.starts[j + 1] > day_number)
    IN  span.segments[i]

\* lines 85-92: the entry appended for the day jd, whose segment is curr_segment
solar_term_entry(jd, curr_segment) ==
    [name |-> TIET_KHI[(curr_segment * 2) + 1], date |-> jd_to_date(jd),
     jd |-> jd, index |-> curr_segment * 2]

\* lines 82-93: one pass of the loop, for the day jd
solar_terms_pass(terms, prev_segment, jd, curr_segment) ==
    IF curr_segment # prev_segment
    THEN [terms |-> Append(terms, solar_term_entry(jd, curr_segment)),
          prev_segment |-> curr_segment]
    ELSE [terms |-> terms, prev_segment |-> prev_segment]

\* lines 81-95: for jd in range(jd, jd_end + 1), then return terms
RECURSIVE solar_terms_scan(_, _, _, _, _)
solar_terms_scan(terms, prev_segment, jd, jd_end, timezone) ==
    IF jd > jd_end THEN terms
    ELSE LET after == solar_terms_pass(terms, prev_segment, jd,
                          get_sun_longitude_of_day(jd + 1, timezone))
         IN  solar_terms_scan(after.terms, after.prev_segment, jd + 1, jd_end, timezone)

get_all_solar_terms(year, timezone) ==
    solar_terms_scan(<< >>,
        get_sun_longitude_of_day(jd_from_date(1, 1, year) + 1, timezone),
        jd_from_date(1, 1, year) + 1, jd_from_date(31, 12, year), timezone)

(***************************************************************************)
(* Input sets.                                                             *)
(***************************************************************************)
ValidDates(years) ==
    { <<d, m, y>> \in (1..31) \X (1..12) \X years : is_valid(d, m, y) }

ReformYear == jd_to_date(GregorianStartJd)[3]

JdDates ==
    ValidDates(((ReformYear - JdYearSpan)..(ReformYear + JdYearSpan))
               \cup {1600, 1900, 1945, 1970, 2000, 2024, 2099})

JdNumbers ==
    ((0 - JdWindow)..JdWindow)
    \cup ((GregorianStartJd - JdWindow)..(GregorianStartJd + JdWindow))
    \cup ((2451545 - JdWindow)..(2451545 + JdWindow))

CmpDates ==
    { dt \in ValidDates({ReformYear}) :
         dt[2] >= 10 - CmpMonthSpan /\ dt[2] <= 10 + CmpMonthSpan }
    \cup { <<31, 12, 1581>>, <<1, 1, 1583>>, <<28, 2, 1900>>, <<1, 3, 1900>>,
           <<28, 2, 2000>>, <<29, 2, 2000>>, <<1, 3, 2000>>,
           <<31, 12, 1999>>, <<1, 1, 2000>> }

\* years below and above the table
AstroYears ==
    ((1800 - AstroYearSpan)..1799) \cup (2100..(2099 + AstroYearSpan))

\* table years whose predecessor is listed too (or is 1799)
LookupSolarYears == {1800, 1801, 1802, 2020, 2021, 2023, 2024, 2025, 2098, 2099}

SolarDates == ValidDates(LookupSolarYears \cup AstroYears)

LunarArgs(years) ==
    { [day |-> d, month |-> m, year |-> y, leap |-> l, timezone |-> DEFAULT_TIMEZONE] :
        d \in 0..MaxLunarDay, m \in 1..12, y \in years, l \in BOOLEAN }

\* years whose lunations are tabulated for every timezone of Timezones: two
\* table years and one year above the table
TimezoneYears == {2023, 2024, 2100}

\* day numbers around 0, negative ones included, and from 2024-01-01 on
LuckyJds ==
    ((0 - LuckyJdSpan)..LuckyJdSpan)
    \cup (jd_from_date(1, 1, 2024)..(jd_from_date(1, 1, 2024) + LuckyJdSpan))

SunDays ==
    UNION { (jd_from_date(20, 3, y) - SunDaySpan)..(jd_from_date(20, 3, y) + SunDaySpan) :
              y \in {1600, 1999, 2024} }

\* values of the sine series, across its range
EquationOfCentre ==
    { 50 * n - EquationOfCentreMax : n \in 0..((2 * EquationOfCentreMax) \div 50) }

\* lunar dates that are compared: the first, a middle and the last days of
\* every month, ordinary and leap, of a year with a leap month and of a year
\* without one
LunarCmpDates ==
    { [day |-> d, month |-> m, year |-> y, is_leap |-> l] :
        d \in {1, 15, 29, 30}, m \in 1..12, y \in {2023, 2024}, l \in BOOLEAN }

\* a year before the reform that is a leap year by the Julian rule only,
\* the reform year and a recent year
HourDates == ValidDates({1500, ReformYear, 2024})

\* years whose solar terms are listed: an ordinary year, a leap year and a
\* century year that is no leap year
SolarTermYears == {2023, 2024, 2100}

\* years whose month 11 the leap month scan starts from (a11), both sides of
\* the table's upper end
LeapScanYears == (2017..2027) \cup (2095..2104)

\* the scan is also started LeapScanShift months of 30 days after a11 (the
\* function takes any day number)
LeapScanStarts ==
    { [a11 |-> get_lunar_month_11(y, tz) + 30 * n, timezone |-> tz] :
        y \in LeapScanYears, tz \in Timezones, n \in 0..LeapScanShift }

\* day numbers handed to SolarDate.from_jd: those of JdNumbers and the days
\* around the end of February 1500, a leap year of the Julian calendar only
FromJdNumbers ==
    JdNumbers
    \cup ((jd_from_date(28, 2, 1500) - JdWindow)..(jd_from_date(28, 2, 1500) + JdWindow))

\* table years from which the lunar round trip starts: those whose successor
\* is listed too, and the last year of the table
LunarRoundTripYears ==
    { y \in DOMAIN YearCodes : y + 1 \in DOMAIN YearCodes \/ y = 2099 }

\* every (day, month, leap flag) of those years, days 1..MaxLunarDay
LunarRoundTripArgs ==
    { a \in LunarArgs(LunarRoundTripYears) : a.day >= 1 }

\* packed year codes: Tet offset, leap length bit, 12 month bits, leap index
SampleYearCodes ==
    { off * (2 ^ 17) + lb * (2 ^ 16) + ((j * 1365) % 4096) * 16 + idx :
        off \in {20, 49}, lb \in 0..1, j \in 0..MaskCount, idx \in 0..15 }

(***************************************************************************)
(* The calls.                                                              *)
(***************************************************************************)
Ops == {"date_jd_date", "jd_date_jd", "jd_compare", "solar_lunar_solar",
        "lunar_to_solar", "lunar_to_solar_astro", "decode",
        "solar_to_lunar_tiers", "lunar_to_solar_tiers",
        "solar_to_lunar_timezones", "lunar_to_solar_timezones",
        "lucky_hours", "sun_longitude", "hour_info", "lunar_compare",
        "solar_date_new", "lunar_date_new", "day_name",
        "from_jd", "lunar_solar_lunar"}

InitArgs(o) ==
    CASE o = "date_jd_date" -> { [date |-> dt] : dt \in JdDates }
      [] o = "jd_date_jd"   -> { [jd |-> j] : j \in JdNumbers }
      [] o = "jd_compare"   -> { [a |-> x, b |-> y] : x \in CmpDates, y \in CmpDates }
      [] o = "solar_lunar_solar" ->
            { [date |-> dt, timezone |-> DEFAULT_TIMEZONE] : dt \in SolarDates }
      [] o = "lunar_to_solar" -> LunarArgs(DOMAIN YearCodes \cup AstroYears)
      [] o = "lunar_to_solar_astro" -> LunarArgs(AstroYears)
      [] o = "decode" ->
            { [year |-> y, year_code |-> c] : y \in {1800, 2024}, c \in SampleYearCodes }
      [] o = "solar_to_lunar_tiers" ->
            { [date |-> dt, timezone |-> DEFAULT_TIMEZONE] : dt \in ValidDates(LookupSolarYears) }
      [] o = "lunar_to_solar_tiers" -> LunarArgs(DOMAIN YearCodes)
      [] o = "sun_longitude" ->
            { [day_number |-> j, timezone |-> tz, DL |-> dl] :
                j \in SunDays, tz \in Timezones, dl \in EquationOfCentre }
      [] o = "hour_info" ->
            { [hour |-> h, date |-> dt] :
                h \in (0 - HourMargin)..(23 + HourMargin), dt \in HourDates }
      [] o = "lunar_compare" ->
            { pair \in [a : LunarCmpDates, b : LunarCmpDates,
                        timezone : {DEFAULT_TIMEZONE}] : pair.a.year = pair.b.year }
      [] o = "solar_date_new" ->
            { [day |-> d, month |-> m, year |-> y, field |-> f, value |-> v] :
                d \in (1 - FieldMargin)..(31 + FieldMargin),
                m \in (1 - FieldMargin)..(12 + FieldMargin),
                y \in {1900, 2000, 2023, 2024, 2100},
                f \in {"day", "month", "year"}, v \in {2} }
      [] o = "lunar_date_new" ->
            { [day |-> d, month |-> m, year |-> y, is_leap |-> l] :
                d \in (1 - FieldMargin)..(30 + FieldMargin),
                m \in (1 - FieldMargin)..(12 + FieldMargin),
                y \in {2020, 2024}, l \in BOOLEAN }
      [] o = "lucky_hours" -> { [jd |-> j] : j \in LuckyJds }
      [] o = "day_name" -> { [jd |-> j] : j \in LuckyJds }
      [] o = "from_jd" -> { [jd |-> j] : j \in FromJdNumbers }
      [] o = "lunar_solar_lunar" -> LunarRoundTripArgs
      [] o = "solar_to_lunar_timezones" ->
            { [date |-> dt] : dt \in ValidDates(TimezoneYears) }
      [] o = "lunar_to_solar_timezones" ->
            { [day |-> d, month |-> m, year |-> y, leap |-> l] :
                d \in 0..MaxLunarDay, m \in 1..12, y \in TimezoneYears, l \in BOOLEAN }

Init ==
    /\ op \in Ops
    /\ arg \in InitArgs(op)
    /\ mid = NoValue
    /\ res = NoValue
    /\ pc = "start"
    /\ cache = EmptyCache
    /\ callers = [t \in Callers |-> IdleCaller]

\* SolarDate(d, m, y).to_jd()
DateToJd ==
    /\ op = "date_jd_date" /\ pc = "start"
    /\ mid' = [kind |-> "jd", jd |-> jd_from_date(arg.date[1], arg.date[2], arg.date[3])]
    /\ pc' = "mid"
    /\ UNCHANGED <<cache, callers, op, arg, res>>

\* jd_to_date(jd) of the JDN just computed
DateToJdBack ==
    /\ op = "date_jd_date" /\ pc = "mid"
    /\ res' = [kind |-> "date", date |-> jd_to_date(mid.jd)]
    /\ pc' = "done"
    /\ UNCHANGED <<cache, callers, op, arg, mid>>

\* jd_to_date(jd)
JdToDate ==
    /\ op = "jd_date_jd" /\ pc = "start"
    /\ mid' = [kind |-> "date", date |-> jd_to_date(arg.jd)]
    /\ pc' = "mid"
    /\ UNCHANGED <<cache, callers, op, arg, res>>

\* jd_from_date(*date) of the date just computed
JdToDateBack ==
    /\ op = "jd_date_jd" /\ pc = "mid"
    /\ res' = [kind |-> "jd", jd |-> jd_from_date(mid.date[1], mid.date[2], mid.date[3])]
    /\ pc' = "done"
    /\ UNCHANGED <<cache, callers, op, arg, mid>>

\* a < b on SolarDates, and the JDNs of both
CompareDates ==
    /\ op = "jd_compare" /\ pc = "start"
    /\ res' = [kind |-> "cmp",
               lt  |-> SolarDate_lt(arg.a, arg.b),
               jda |-> jd_from_date(arg.a[1], arg.a[2], arg.a[3]),
               jdb |-> jd_from_date(arg.b[1], arg.b[2], arg.b[3])]
    /\ pc' = "done"
    /\ UNCHANGED <<cache, callers, op, arg, mid>>

\* solar_to_lunar(d, m, y, timezone)
SolarToLunar ==
    /\ op = "solar_lunar_solar" /\ pc = "start"
    /\ mid' = solar_to_lunar(arg.date[1], arg.date[2], arg.date[3], arg.timezone)
    /\ pc' = "mid"
    /\ UNCHANGED <<cache, callers, op, arg, res>>

\* lunar_to_solar(*lunar, timezone) of the lunar date just returned
SolarToLunarBack ==
    /\ op = "solar_lunar_solar" /\ pc = "mid"
    /\ res' = lunar_to_solar(mid.val[1], mid.val[2], mid.val[3], mid.val[4], arg.timezone)
    /\ pc' = "done"
    /\ UNCHANGED <<cache, callers, op, arg, mid>>

\* lunar_to_solar(day, month, year, leap, timezone)
LunarToSolar ==
    /\ op = "lunar_to_solar" /\ pc = "start"
    /\ res' = lunar_to_solar(arg.day, arg.month, arg.year, arg.leap, arg.timezone)
    /\ pc' = "done"
    /\ UNCHANGED <<cache, callers, op, arg, mid>>

\* _lunar_to_solar_astro(day, month, year, leap, timezone), the tier itself
LunarToSolarAstro ==
    /\ op = "lunar_to_solar_astro" /\ pc = "start"
    /\ res' = with_tier(lunar_to_solar_astro(arg.day, arg.month, arg.year, arg.leap,
                                             arg.timezone), "astro")
    /\ pc' = "done"
    /\ UNCHANGED <<cache, callers, op, arg, mid>>

\* the decode of _get_lunar_year_data(year) for the code the table returned
DecodeYear ==
    /\ op = "decode" /\ pc = "start"
    /\ res' = LET r == decode_year_code(arg.year, arg.year_code)
              IN  [kind |-> "ok", jd_tet |-> r[1], months |-> r[2]]
    /\ pc' = "done"
    /\ UNCHANGED <<cache, callers, op, arg, mid>>

\* _solar_to_lunar_lookup(d, m, y) and _solar_to_lunar_astro(d, m, y, timezone)
\* on the same date
SolarToLunarTiers ==
    /\ op = "solar_to_lunar_tiers" /\ pc = "start"
    /\ res' = [kind |-> "tiers",
               lookup |-> solar_to_lunar_lookup(arg.date[1], arg.date[2], arg.date[3]),
               astro |-> solar_to_lunar_astro(arg.date[1], arg.date[2], arg.date[3],
                                              arg.timezone)]
    /\ pc' = "done"
    /\ UNCHANGED <<cache, callers, op, arg, mid>>

\* _lunar_to_solar_lookup(...) and _lunar_to_solar_astro(..., timezone) on the
\* same lunar date
LunarToSolarTiers ==
    /\ op = "lunar_to_solar_tiers" /\ pc = "start"
    /\ res' = [kind |-> "tiers",
               lookup |-> lunar_to_solar_lookup(arg.day, arg.month, arg.year, arg.leap),
               astro |-> lunar_to_solar_astro(arg.day, arg.month, arg.year, arg.leap,
                                              arg.timezone)]
    /\ pc' = "done"
    /\ UNCHANGED <<cache, callers, op, arg, mid>>

\* solar_to_lunar(d, m, y, timezone), once per timezone
SolarToLunarTimezones ==
    /\ op = "solar_to_lunar_timezones" /\ pc = "start"
    /\ res' = [tz \in Timezones |->
                  solar_to_lunar(arg.date[1], arg.date[2], arg.date[3], tz)]
    /\ pc' = "done"
    /\ UNCHANGED <<cache, callers, op, arg, mid>>

\* lunar_to_solar(day, month, year, leap, timezone), once per timezone
LunarToSolarTimezones ==
    /\ op = "lunar_to_solar_timezones" /\ pc = "start"
    /\ res' = [tz \in Timezones |->
                  lunar_to_solar(arg.day, arg.month, arg.year, arg.leap, tz)]
    /\ pc' = "done"
    /\ UNCHANGED <<cache, callers, op, arg, mid>>

\* get_lucky_hours(jd) and get_lucky_hour_names(jd)
LuckyHours ==
    /\ op = "lucky_hours" /\ pc = "start"
    /\ res' = [kind |-> "lucky", hours |-> get_lucky_hours(arg.jd),
               names |-> get_lucky_hour_names(arg.jd)]
    /\ pc' = "done"
    /\ UNCHANGED <<cache, callers, op, arg, mid>>

\* get_sun_longitude(day_number, timezone), which is
\* get_solar_term_index(day_number - 1, timezone), and the index
\* get_solar_term(day_number - 1, timezone) reads TIET_KHI at
SunLongitude ==
    /\ op = "sun_longitude" /\ pc = "start"
    /\ res' = [kind |-> "segment",
               raw |-> sun_longitude_mean(arg.day_number, arg.timezone) + arg.DL,
               segment |-> sun_longitude_segment(arg.day_number, arg.timezone, arg.DL),
               term_index |->
                   sun_longitude_segment(arg.day_number, arg.timezone, arg.DL) * 2]
    /\ pc' = "done"
    /\ UNCHANGED <<cache, callers, op, arg, mid>>

\* get_hour_info(hour, d, m, y)
HourInfo ==
    /\ op = "hour_info" /\ pc = "start"
    /\ res' = get_hour_info(arg.hour, arg.date[1], arg.date[2], arg.date[3])
    /\ pc' = "done"
    /\ UNCHANGED <<cache, callers, op, arg, mid>>

\* a < b, a <= b, a > b, a >= b and a == b on LunarDates, and
\* x.to_solar_date(timezone).to_jd() of both
LunarCompare ==
    /\ op = "lunar_compare" /\ pc = "start"
    /\ res' = LET a == LunarDate(arg.a.day, arg.a.month, arg.a.year, arg.a.is_leap).val
                  b == LunarDate(arg.b.day, arg.b.month, arg.b.year, arg.b.is_leap).val
                  sa == to_solar_date(a, arg.timezone)
                  sb == to_solar_date(b, arg.timezone)
              IN  [kind |-> "cmp",
                   lt |-> LunarDate_lt(a, b), le |-> LunarDate_le(a, b),
                   gt |-> LunarDate_gt(a, b), ge |-> LunarDate_ge(a, b),
                   eq |-> LunarDate_eq(a, b),
                   converted |-> sa.kind = "ok" /\ sb.kind = "ok",
                   jda |-> IF sa.kind = "ok"
                           THEN jd_from_date(sa.val[1], sa.val[2], sa.val[3]) ELSE 0,
                   jdb |-> IF sb.kind = "ok"
                           THEN jd_from_date(sb.val[1], sb.val[2], sb.val[3]) ELSE 0]
    /\ pc' = "done"
    /\ UNCHANGED <<cache, callers, op, arg, mid>>

\* SolarDate(day, month, year)
SolarDateNew ==
    /\ op = "solar_date_new" /\ pc = "start"
    /\ mid' = SolarDate(arg.day, arg.month, arg.year)
    /\ pc' = IF is_valid(arg.day, arg.month, arg.year) THEN "constructed" ELSE "raised"
    /\ UNCHANGED <<cache, callers, op, arg, res>>

\* d.field = value on the SolarDate d just constructed
SolarDateAssign ==
    /\ op = "solar_date_new" /\ pc = "constructed"
    /\ res' = frozen_setattr(mid.val, arg.field, arg.value)
    /\ pc' = "done"
    /\ UNCHANGED <<cache, callers, op, arg, mid>>

\* LunarDate(day, month, year, is_leap)
LunarDateNew ==
    /\ op = "lunar_date_new" /\ pc = "start"
    /\ res' = LunarDate(arg.day, arg.month, arg.year, arg.is_leap)
    /\ pc' = "done"
    /\ UNCHANGED <<cache, callers, op, arg, mid>>

\* day_name(jd), day_name(jd + 1), ..., day_name(jd + 60)
DayName ==
    /\ op = "day_name" /\ pc = "start"
    /\ res' = [kind |-> "names", names |-> [i \in 0..60 |-> day_name(arg.jd + i)]]
    /\ pc' = "done"
    /\ UNCHANGED <<cache, callers, op, arg, mid>>

\* SolarDate.from_jd(jd)
FromJd ==
    /\ op = "from_jd" /\ pc = "start"
    /\ res' = SolarDate_from_jd(arg.jd)
    /\ pc' = "done"
    /\ UNCHANGED <<cache, callers, op, arg, mid>>

\* lunar_to_solar(day, month, year, leap, timezone), the first half of the
\* round trip from a lunar date
LunarToSolarFirst ==
    /\ op = "lunar_solar_lunar" /\ pc = "start"
    /\ mid' = lunar_to_solar(arg.day, arg.month, arg.year, arg.leap, arg.timezone)
    /\ pc' = IF lunar_to_solar(arg.day, arg.month, arg.year, arg.leap,
                               arg.timezone).kind = "ok"
             THEN "mid" ELSE "raised"
    /\ UNCHANGED <<cache, callers, op, arg, res>>

\* solar_to_lunar(*solar, timezone) of the solar date just returned
LunarToSolarBack ==
    /\ op = "lunar_solar_lunar" /\ pc = "mid"
    /\ res' = solar_to_lunar(mid.val[1], mid.val[2], mid.val[3], arg.timezone)
    /\ pc' = "done"
    /\ UNCHANGED <<cache, callers, op, arg, mid>>

Next ==
    \/ DayName
    \/ FromJd
    \/ LunarToSolarFirst
    \/ LunarToSolarBack
    \/ SolarToLunar
    \/ SolarToLunarBack
    \/ LunarToSolar
    \/ LunarToSolarAstro
    \/ DecodeYear
    \/ DateToJd
    \/ DateToJdBack
    \/ JdToDate
    \/ JdToDateBack
    \/ CompareDates
    \/ SolarToLunarTiers
    \/ LunarToSolarTiers
    \/ SolarToLunarTimezones
    \/ LunarToSolarTimezones
    \/ LuckyHours
    \/ SunLongitude
    \/ HourInfo
    \/ LunarCompare
    \/ SolarDateNew
    \/ SolarDateAssign
    \/ LunarDateNew

Spec == Init /\ [][Next]_vars

(***************************************************************************)
(* Concurrent callers of the memoized functions.                           *)
(***************************************************************************)
CacheInit ==
    /\ op = "memoized_calls"
    /\ arg = NoValue
    /\ mid = NoValue
    /\ res = NoValue
    /\ pc = "callers"
    /\ cache = EmptyCache
    /\ callers = [t \in Callers |-> IdleCaller]

\* the key is in the cache: the cached value is returned
CacheHit(t) ==
    /\ op = "memoized_calls" /\ callers[t].pc = "idle"
    /\ \E call \in MemoizedCalls :
         \E i \in lru_find(cache[call.fn], cache_key(call.args)) :
            /\ callers' = [callers EXCEPT ![t] =
                     [pc |-> "returned", call |-> call, hit |-> TRUE,
                      served |-> cache[call.fn][i].args, val |-> cache[call.fn][i].val]]
            /\ cache' = [cache EXCEPT ![call.fn] = lru_touch(@, i)]
    /\ UNCHANGED <<op, arg, mid, res, pc>>

\* the key is not in the cache: the caller goes on to run the function
CacheMiss(t) ==
    /\ op = "memoized_calls" /\ callers[t].pc = "idle"
    /\ \E call \in MemoizedCalls :
         /\ lru_find(cache[call.fn], cache_key(call.args)) = {}
         /\ callers' = [callers EXCEPT ![t] = [pc |-> "computing", call |-> call]]
    /\ UNCHANGED <<op, arg, mid, res, pc, cache>>

\* the function has run, calling new_moon on its way, and its result is stored
CacheStore(t) ==
    /\ op = "memoized_calls" /\ callers[t].pc = "computing"
    /\ LET call == callers[t].call
           val == Uncached[call]
           after_nested == [cache EXCEPT !["new_moon"] =
                               lru_new_moon_calls(@, NestedNewMoons[call], 1)]
       IN  /\ cache' = [after_nested EXCEPT ![call.fn] =
                            lru_insert(@, cache_entry(call.args, val))]
           /\ callers' = [callers EXCEPT ![t] =
                    [pc |-> "returned", call |-> call, hit |-> FALSE,
                     served |-> call.args, val |-> val]]
    /\ UNCHANGED <<op, arg, mid, res, pc>>

\* the caller has used the value and is ready for its next call
CacheReturn(t) ==
    /\ op = "memoized_calls" /\ callers[t].pc = "returned"
    /\ callers' = [callers EXCEPT ![t] = IdleCaller]
    /\ UNCHANGED <<op, arg, mid, res, pc, cache>>

CacheNext ==
    \E t \in Callers :
        \/ CacheHit(t)
        \/ CacheMiss(t)
        \/ CacheStore(t)
        \/ CacheReturn(t)

CacheSpec == CacheInit /\ [][CacheNext]_vars

(***************************************************************************)
(* The two loops of the library, one pass per step: the leap month scan of *)
(* get_leap_month_offset and the day scan of get_all_solar_terms.  A call  *)
(* that has started keeps running (weak fairness): nothing suspends it.    *)
(***************************************************************************)
ScanOps == {"leap_month_offset", "all_solar_terms"}

ScanArgs(o) ==
    CASE o = "leap_month_offset" -> LeapScanStarts
      [] o = "all_solar_terms" ->
            { [year |-> y, timezone |-> tz] : y \in SolarTermYears, tz \in Timezones }

ScanInit ==
    /\ op \in ScanOps
    /\ arg \in ScanArgs(op)
    /\ mid = NoValue
    /\ res = NoValue
    /\ pc = "start"
    /\ cache = EmptyCache
    /\ callers = [t \in Callers |-> IdleCaller]

\* line 46 with the bound off by one: while i < 15
leap_scan_continues_through_fourteen(i) == i <= 14

\* line 46: while i < 14
leap_scan_continues(i) == i < 14

\* get_leap_month_offset, lines 42-44: k, last and i = 1
LeapOffsetStart ==
    /\ op = "leap_month_offset" /\ pc = "start"
    /\ mid' = [kind |-> "scan", k |-> lunation_index_rounded(arg.a11),
               last |-> get_sun_longitude(
                            get_new_moon_day(lunation_index_rounded(arg.a11),
                                             arg.timezone), arg.timezone),
               i |-> 1, passes |-> 0]
    /\ pc' = "scan"
    /\ UNCHANGED <<cache, callers, op, arg, res>>

\* lines 46-52: one pass of while i < 14
LeapOffsetPass ==
    /\ op = "leap_month_offset" /\ pc = "scan" /\ leap_scan_continues(mid.i)
    /\ LET arc == get_sun_longitude(get_new_moon_day(mid.k + mid.i, arg.timezone),
                                    arg.timezone)
       IN  IF mid.i > 1 /\ arc = mid.last
           THEN /\ res' = [kind |-> "ok", val |-> mid.i - 1]
                /\ mid' = [mid EXCEPT !.passes = @ + 1]
                /\ pc' = "done"
           ELSE /\ mid' = [mid EXCEPT !.last = arc, !.i = @ + 1, !.passes = @ + 1]
                /\ UNCHANGED <<res, pc>>
    /\ UNCHANGED <<cache, callers, op, arg>>

\* line 54: the loop has ended without a return
LeapOffsetExhausted ==
    /\ op = "leap_month_offset" /\ pc = "scan" /\ ~ leap_scan_continues(mid.i)
    /\ res' = [kind |-> "ok", val |-> 0]
    /\ pc' = "done"
    /\ UNCHANGED <<cache, callers, op, arg, mid>>

\* get_all_solar_terms, lines 74-81: terms, prev_segment and the first jd
AllTermsStart ==
    /\ op = "all_solar_terms" /\ pc = "start"
    /\ mid' = [kind |-> "scan", terms |-> << >>,
               jd |-> jd_from_date(1, 1, arg.year) + 1,
               jd_end |-> jd_from_date(31, 12, arg.year),
               prev_segment |-> get_sun_longitude_of_day(
                                    jd_from_date(1, 1, arg.year) + 1, arg.timezone),
               passes |-> 0]
    /\ pc' = "scan"
    /\ UNCHANGED <<cache, callers, op, arg, res>>

\* lines 81-93: one pass of for jd in range(jd_start + 1, jd_end + 1)
AllTermsPass ==
    /\ op = "all_solar_terms" /\ pc = "scan" /\ mid.jd <= mid.jd_end
    /\ LET after == solar_terms_pass(mid.terms, mid.prev_segment, mid.jd,
                         get_sun_longitude_of_day(mid.jd + 1, arg.timezone))
       IN  mid' = [mid EXCEPT !.terms = after.terms,
                              !.prev_segment = after.prev_segment,
                              !.jd = @ + 1, !.passes = @ + 1]
    /\ UNCHANGED <<cache, callers, op, arg, res, pc>>

\* line 95: return terms
AllTermsReturn ==
    /\ op = "all_solar_terms" /\ pc = "scan" /\ mid.jd > mid.jd_end
    /\ res' = [kind |-> "terms", terms |-> mid.terms]
    /\ pc' = "done"
    /\ UNCHANGED <<cache, callers, op, arg, mid>>

ScanNext ==
    \/ LeapOffsetStart
    \/ LeapOffsetPass
    \/ LeapOffsetExhausted
    \/ AllTermsStart
    \/ AllTermsPass
    \/ AllTermsReturn

ScanSpec == ScanInit /\ [][ScanNext]_vars /\ WF_vars(ScanNext)

(***************************************************************************)
(* Claims.                                                                 *)
(***************************************************************************)

\* C1: solar-lunar round trip: for every valid Gregorian date (d, m, y) with
\* y in 1..9999 and the default timezone, lunar_to_solar(*solar_to_lunar(d,
\* m, y)) returns exactly (d, m, y) without raising.
C1_SolarRoundTrip ==
    (op = "solar_lunar_solar" /\ pc = "done")
        => (res.kind = "ok" /\ res.val = arg.date)

\* C5: for a lunar year outside 1800..2099 lunar_to_solar does not fail in
\* the lookup tier: the call falls through to the astronomical tier, whose
\* result is what the caller receives.
C5_OutOfRangeFallsThrough ==
    (op = "lunar_to_solar" /\ pc = "done" /\ (arg.year < 1800 \/ arg.year > 2099))
        => res = with_tier(lunar_to_solar_astro(arg.day, arg.month, arg.year,
                                                arg.leap, arg.timezone), "astro")

\* C6 (as stated): every valid solar date whose year lies in 1800..2099,
\* the dates before Tet of 1800 included, is resolved by the lookup tier.
C6_LookupForEveryTableYear ==
    (op = "solar_lunar_solar" /\ pc # "start"
       /\ arg.date[3] >= 1800 /\ arg.date[3] <= 2099)
        => mid.tier = "lookup"

\* C6 (amended): solar_to_lunar uses the astronomical fallback exactly when
\* the solar year is below 1800 or above 2099 or the date precedes Tet of
\* 1800; every date from Tet of 1800 through the end of 2099 is resolved by
\* the lookup tier.
C6_FallbackOnlyOutsideTable ==
    (op = "solar_lunar_solar" /\ pc # "start")
        => LET y == arg.date[3]
               jd == jd_from_date(arg.date[1], arg.date[2], y)
           IN  (mid.tier = "astro")
                 <=> (y < 1800 \/ y > 2099 \/ jd < get_lunar_year_data(1800)[1])

\* Tet of 1800, the first date the table covers, is resolved by the lookup tier
C6_Witness ==
    /\ op = "solar_lunar_solar" /\ pc = "mid"
    /\ arg.date[3] = 1800
    /\ mid.tier = "lookup"
    /\ mid.val = <<1, 1, 1800, FALSE>>

\* C7: lunar-year tie-break in the lookup tier: for a solar date with JDN jd
\* in solar year y the lunar year is y when jd >= tet_jdn(y) and y - 1
\* otherwise; the date is assigned to the last month of that lunar year
\* whose start is <= jd, with lunar day jd - month_start + 1.
C7_LunarYearTieBreak ==
    (op = "solar_lunar_solar" /\ pc # "start" /\ mid.tier = "lookup")
        => LET y == arg.date[3]
               jd == jd_from_date(arg.date[1], arg.date[2], y)
               lunar_year == IF jd >= get_lunar_year_data(y)[1] THEN y ELSE y - 1
               months == get_lunar_year_data(lunar_year)[2]
               started == { i \in DOMAIN months : months[i].jd_start <= jd }
           IN  \E i \in started :
                 /\ \A j \in started : months[j].jd_start <= months[i].jd_start
                 /\ mid.val = << jd - months[i].jd_start + 1, months[i].month,
                                 lunar_year, months[i].is_leap >>

\* a January date before Tet is given to the previous lunar year
C7_Witness ==
    /\ op = "solar_lunar_solar" /\ pc = "mid"
    /\ arg.date = <<1, 1, 2024>>
    /\ mid.tier = "lookup"
    /\ mid.val = <<20, 11, 2023, FALSE>>

\* C8: decoding a year code whose leap-month index L is in 1..12 yields 13
\* entries with exactly one is_leap entry, which has month number L and sits
\* immediately after the ordinary entry with month number L; a code with no
\* leap month yields 12 entries, none is_leap.
C8_LeapYearMonthCount ==
    (op = "decode" /\ pc = "done")
        => LET L == arg.year_code % 16
               months == res.months
               leaps == { i \in DOMAIN months : months[i].is_leap }
           IN  /\ L \in 1..12 =>
                     /\ Len(months) = 13
                     /\ Cardinality(leaps) = 1
                     /\ \A i \in leaps :
                          /\ months[i].month = L
                          /\ i > 1
                          /\ months[i - 1].month = L
                          /\ ~ months[i - 1].is_leap
               /\ L = 0 => (Len(months) = 12 /\ leaps = {})

\* a code with leap month 4 has been decoded into 13 entries, the fifth leap
C8_Witness ==
    /\ op = "decode" /\ pc = "done"
    /\ arg.year_code % 16 = 4
    /\ Len(res.months) = 13
    /\ res.months[5].is_leap

\* C9: in the lookup tier lunar_to_solar raises DateNotExistError exactly
\* when the decoded year has no entry matching (month, leap) or when day
\* exceeds that entry's length; otherwise it returns
\* jd_to_date(month_start + day - 1).
C9_LookupRaisesExactly ==
    (op = "lunar_to_solar" /\ pc = "done" /\ res.tier = "lookup")
        => LET months == get_lunar_year_data(arg.year)[2]
               match == { i \in DOMAIN months :
                            months[i].month = arg.month /\ months[i].is_leap = arg.leap }
           IN  IF match = {} \/ (\E i \in match : arg.day > months[i].days)
               THEN res.kind = "DateNotExistError"
               ELSE /\ res.kind = "ok"
                    /\ \E i \in match :
                         res.val = jd_to_date(months[i].jd_start + arg.day - 1)

\* day 30 of the 29-day leap month 4 of 2020 has been refused
C9_Witness ==
    /\ op = "lunar_to_solar" /\ pc = "done"
    /\ arg.year = 2020 /\ arg.month = 4 /\ arg.leap /\ arg.day = 30
    /\ res.kind = "DateNotExistError"
    /\ res.why = "day"

\* C10: in the astronomical tier lunar_to_solar raises DateNotExistError
\* when the requested day is greater than the number of days between the
\* month's new-moon day and the next new-moon day.
C10_AstroDayOverflowRaises ==
    (op = "lunar_to_solar_astro" /\ pc = "done")
        => LET target == astro_month_lunation(arg.month, arg.year, arg.leap, arg.timezone)
           IN  ( /\ target.kind = "ok"
                 /\ arg.day > get_new_moon_day(target.lunation + 1, arg.timezone)
                              - get_new_moon_day(target.lunation, arg.timezone) )
                 => res.kind = "DateNotExistError"

\* C2: JDN round trip: for every valid Gregorian date (d, m, y),
\* jd_to_date(jd_from_date(d, m, y)) = (d, m, y), the dates around the
\* 1582-10-15 reform boundary included.
C2_JdRoundTrip ==
    (op = "date_jd_date" /\ pc = "done") => res.date = arg.date

\* C3: jd_from_date is strictly increasing: a precedes b in (year, month,
\* day) order if and only if jd_from_date(a) < jd_from_date(b).
C3_JdStrictlyIncreasing ==
    (op = "jd_compare" /\ pc = "done") => (res.lt <=> (res.jda < res.jdb))

\* C4: jd_to_date is the inverse of jd_from_date in the JDN-to-date
\* direction: for every integer jd, jd_from_date(*jd_to_date(jd)) = jd.
C4_JdInverse ==
    (op = "jd_date_jd" /\ pc = "done") => res.jd = arg.jd

\* a Julian-regime JDN (the last one) has been converted there and back
C4_Witness ==
    /\ op = "jd_date_jd" /\ pc = "done"
    /\ arg.jd = GregorianStartJd - 1
    /\ mid.date = <<4, 10, 1582>>

\* C11: the two tiers agree: for every valid solar date of 1800..2099 that
\* the lookup tier resolves, _solar_to_lunar_astro (timezone 7) returns the
\* identical (day, month, year, is_leap), and for every lunar date that
\* exists in the table _lunar_to_solar_astro returns the identical solar date.
C11_TiersAgree ==
    ((op = "solar_to_lunar_tiers" \/ op = "lunar_to_solar_tiers")
       /\ pc = "done" /\ res.lookup.kind = "ok")
        => res.astro = res.lookup

\* C12: round trip inside the table-covered range: for every valid solar
\* date from 1800-01-01 through 2099-12-31,
\* lunar_to_solar(*solar_to_lunar(d, m, y)) returns (d, m, y) without raising.
C12_TableRangeRoundTrip ==
    (op = "solar_lunar_solar" /\ pc = "done"
       /\ arg.date[3] >= 1800 /\ arg.date[3] <= 2099)
        => (res.kind = "ok" /\ res.val = arg.date)

\* C13: timezone independence of the lookup tier: for an input that the
\* lookup tier resolves (with a value or with an error), solar_to_lunar and
\* lunar_to_solar return the same result or the same error for every value
\* of the timezone argument.
C13_LookupIgnoresTimezone ==
    /\ (op = "solar_to_lunar_timezones" /\ pc = "done"
          /\ solar_to_lunar_lookup(arg.date[1], arg.date[2], arg.date[3]).kind # "None")
         => \A tz \in Timezones : res[tz] = res[DEFAULT_TIMEZONE]
    /\ (op = "lunar_to_solar_timezones" /\ pc = "done"
          /\ lunar_to_solar_lookup(arg.day, arg.month, arg.year, arg.leap).kind # "None")
         => \A tz \in Timezones : res[tz] = res[DEFAULT_TIMEZONE]

\* 2023-01-21 has been converted for both timezones with one result, though
\* the astronomical tier would give it two different lunar dates
C13_Witness ==
    /\ op = "solar_to_lunar_timezones" /\ pc = "done"
    /\ arg.date = <<21, 1, 2023>>
    /\ res[0].tier = "lookup"
    /\ res[0] = res[DEFAULT_TIMEZONE]
    /\ solar_to_lunar_astro(21, 1, 2023, 0) # solar_to_lunar_astro(21, 1, 2023, DEFAULT_TIMEZONE)

\* C14: cache transparency: under any interleaving of calls of the memoized
\* functions by concurrent callers, with evictions from the bounded caches,
\* every call returns what the uncached function returns for the same
\* arguments, and a cached entry is served only for the arguments it was
\* stored for (key and timezone).
C14_CacheTransparent ==
    /\ \A t \in Callers :
          callers[t].pc = "returned"
            => /\ callers[t].val = Uncached[callers[t].call]
               /\ callers[t].served = callers[t].call.args
    /\ \A fn \in DOMAIN cache : \A i \in DOMAIN cache[fn] :
          \A call \in MemoizedCalls :
             (call.fn = fn /\ cache_key(call.args) = cache[fn][i].key)
                => cache[fn][i].val = Uncached[call]

\* a caller has been served get_lunar_month_11 for timezone 7 from the cache
\* while the entry of the same year for timezone 0 is cached too, and the
\* new_moon cache is full
C14_Witness ==
    /\ op = "memoized_calls"
    /\ \E t \in Callers, yy \in CacheYears :
          /\ callers[t].pc = "returned" /\ callers[t].hit
          /\ callers[t].call = [fn |-> "get_lunar_month_11",
                                 args |-> << yy, DEFAULT_TIMEZONE >>]
          /\ \E i \in DOMAIN cache["get_lunar_month_11"] :
                cache["get_lunar_month_11"][i].args = << yy, 0 >>
    /\ Len(cache["new_moon"]) >= CacheCapacity

\* C15: lucky-hour partition: for every integer jd, get_lucky_hours(jd)
\* returns exactly 12 entries named in Chi order (Ty first, 23-1), exactly 6
\* of them with is_lucky, and get_lucky_hour_names(jd) returns exactly those
\* 6 names, in the same order.
C15_LuckyHourPartition ==
    (op = "lucky_hours" /\ pc = "done")
        => LET lucky == { i \in DOMAIN res.hours : res.hours[i].is_lucky }
           IN  /\ Len(res.hours) = 12
               /\ \A i \in 1..12 : res.hours[i].name = CHI[i]
               /\ res.hours[1].name = "Ty"
               /\ res.hours[1].start = 23 /\ res.hours[1].end = 1
               /\ Cardinality(lucky) = 6
               /\ Len(res.names) = 6
               /\ \A j \in 1..Len(res.names) :
                     \E i \in lucky :
                        /\ res.names[j] = res.hours[i].name
                        /\ Cardinality({ h \in lucky : h <= i }) = j

\* the lucky hours of a negative day number whose branch is Ty: the
\* first pattern
C15_Witness ==
    /\ op = "lucky_hours" /\ pc = "done"
    /\ arg.jd = 0 - 13
    /\ res.names = << "Ty", "Suu", "Mao", "Ngo", "Than", "Dau" >>

\* C16: solar-term segment range: for every integer day number and every
\* timezone, get_sun_longitude(day_number, timezone) (and
\* get_solar_term_index) is an integer in 0..11, so segment * 2 is a valid
\* index of the 24-name table (counted from 0).
C16_SegmentRange ==
    (op = "sun_longitude" /\ pc = "done")
        => /\ res.segment \in 0..11
           /\ res.term_index + 1 \in DOMAIN TIET_KHI

\* a day before the equinox of 1999, where the longitude before the
\* normalisation is negative, has been given segment 11
C16_Witness ==
    /\ op = "sun_longitude" /\ pc = "done"
    /\ res.raw < 0
    /\ arg.day_number = jd_from_date(10, 3, 1999)
    /\ res.segment = 11

\* the calendar day after a valid date
next_calendar_day(dt) ==
    IF is_valid(dt[1] + 1, dt[2], dt[3]) THEN << dt[1] + 1, dt[2], dt[3] >>
    ELSE IF dt[2] < 12 THEN << 1, dt[2] + 1, dt[3] >>
    ELSE << 1, 1, dt[3] + 1 >>

\* C17: midnight-crossing double-hour: for every valid solar date D,
\* get_hour_info(23, D) has chi Ty and the same can and name as
\* get_hour_info(0, D + 1), D + 1 being the next calendar day; for hours
\* 0..22 the stem is (((jd - 1) * 2) + hour_chi_index(hour)) mod 10 with D's
\* own JDN; an hour outside 0..23 raises ValueError.
C17_MidnightCrossing ==
    (op = "hour_info" /\ pc = "done")
        => LET jd == jd_from_date(arg.date[1], arg.date[2], arg.date[3])
               next == next_calendar_day(arg.date)
               info_next == get_hour_info(0, next[1], next[2], next[3])
           IN  /\ (arg.hour < 0 \/ arg.hour > 23) => res.kind = "ValueError"
               /\ (arg.hour >= 0 /\ arg.hour <= 22)
                     => /\ res.kind = "ok"
                        /\ res.can = CAN[((((jd - 1) * 2)
                                           + hour_chi_index(arg.hour).val) % 10) + 1]
               /\ arg.hour = 23
                     => /\ res.kind = "ok"
                        /\ res.chi = "Ty"
                        /\ res.can = info_next.can
                        /\ res.name = info_next.name

\* C18: LunarDate ordering is chronological: for two LunarDates a and b of
\* the same table-covered lunar year that both convert, a < b exactly when
\* a's solar JDN is smaller than b's; <, <=, >, >= and == are mutually
\* consistent, exactly one of a < b, a == b, a > b holding.
C18_LunarOrderChronological ==
    (op = "lunar_compare" /\ pc = "done")
        => /\ res.converted => (res.lt <=> res.jda < res.jdb)
           /\ res.converted => (res.eq <=> res.jda = res.jdb)
           /\ res.le <=> (res.lt \/ res.eq)
           /\ res.gt <=> ~ res.le
           /\ res.ge <=> ~ res.lt
           /\ Cardinality({ r \in {"lt", "eq", "gt"} : res[r] }) = 1

\* the last day of the ordinary month 2 of 2023 has been compared with the
\* first day of the leap month 2: it is the smaller one, and the earlier one
C18_Witness ==
    /\ op = "lunar_compare" /\ pc = "done"
    /\ arg.a = [day |-> 30, month |-> 2, year |-> 2023, is_leap |-> FALSE]
    /\ arg.b = [day |-> 1, month |-> 2, year |-> 2023, is_leap |-> TRUE]
    /\ res.converted
    /\ res.lt
    /\ res.jdb = res.jda + 1

\* C19: SolarDate construction is the validation point: SolarDate(day,
\* month, year) raises DateNotExistError exactly when month is outside
\* 1..12, day < 1, or day exceeds the month's length under the 4/100/400
\* rule (February has 29 days iff year % 4 = 0 and (year % 100 # 0 or
\* year % 400 = 0)); otherwise construction succeeds and the value is
\* immutable.
C19_SolarDateValidation ==
    (op = "solar_date_new" /\ pc # "start")
        => LET y == arg.year
               feb == IF y % 4 = 0 /\ (y % 100 # 0 \/ y % 400 = 0) THEN 29 ELSE 28
               length == [m \in 1..12 |->
                            IF m = 2 THEN feb
                            ELSE IF m \in {4, 6, 9, 11} THEN 30 ELSE 31]
               refused == \/ arg.month < 1 \/ arg.month > 12
                          \/ arg.day < 1
                          \/ arg.day > length[arg.month]
           IN  /\ refused <=> mid.kind = "DateNotExistError"
               /\ ~ refused => (mid.kind = "ok" /\ mid.val = << arg.day, arg.month, y >>)
               /\ pc = "done" => (res.kind = "FrozenInstanceError" /\ res.object = mid.val)

\* 29 February of 1900, a year divisible by 100 and not by 400, has been
\* refused
C19_Witness ==
    /\ op = "solar_date_new" /\ pc = "raised"
    /\ arg.day = 29 /\ arg.month = 2 /\ arg.year = 1900
    /\ mid.kind = "DateNotExistError"

\* C20: LunarDate invariant: every LunarDate that is successfully
\* constructed has day in 1..30, month in 1..12, and a day that does not
\* exceed the actual length (29 or 30) of that month instance (ordinary or
\* leap) of that year.
C20_LunarDateInvariant ==
    (op = "lunar_date_new" /\ pc = "done" /\ res.kind = "ok")
        => LET months == get_lunar_year_data(res.val.year)[2]
           IN  /\ res.val.day \in 1..30
               /\ res.val.month \in 1..12
               /\ \E i \in DOMAIN months :
                     /\ months[i].month = res.val.month
                     /\ months[i].is_leap = res.val.is_leap
                     /\ res.val.day <= months[i].days

\* C21: get_all_solar_terms(year) returns all 24 solar terms of the solar
\* year: a list of 24 entries, in strictly increasing jd order, each entry's
\* 'index' (0..23) naming the term that begins on its 'date'.
C21_AllSolarTerms ==
    (op = "all_solar_terms" /\ pc = "done") =>
        /\ Len(res.terms) = 24
        /\ \A i \in 1..(Len(res.terms) - 1) : res.terms[i].jd < res.terms[i + 1].jd
        /\ \A i \in 1..Len(res.terms) :
              /\ res.terms[i].index \in 0..23
              /\ res.terms[i].name = TIET_KHI[res.terms[i].index + 1]
              /\ res.terms[i].date = jd_to_date(res.terms[i].jd)
              /\ get_sun_longitude_of_day(res.terms[i].jd + 1, arg.timezone) * 2
                     = res.terms[i].index
              /\ get_sun_longitude_of_day(res.terms[i].jd, arg.timezone) * 2
                     # res.terms[i].index

\* days of the ordinary months 1..m of a packed year code (bit 16 - m of the
\* code set: 30 days, clear: 29)
RECURSIVE ordinary_days_through(_, _)
ordinary_days_through(year_code, m) ==
    IF m = 0 THEN 0
    ELSE ordinary_days_through(year_code, m - 1)
             + (IF bit(year_code, 16 - m) = 1 THEN 30 ELSE 29)

\* JDN of the first day of the leap month of a table year: Tet plus the days
\* of the ordinary months up to the leap index
leap_month_first_jd(year) ==
    jd_from_date(1, 1, year) + shr(YearCodes[year], 17)
        + ordinary_days_through(YearCodes[year], YearCodes[year] % 16)

\* C22: leap-month boundaries through solar_to_lunar: in a table year with
\* leap index L, the solar day after the last day of ordinary month L converts
\* to (1, L, year, True), the last day of the leap month converts to
\* (leap_length, L, year, True), and the following solar day converts to
\* (1, L + 1, year, False) when L < 12.
C22_LeapMonthBoundaries ==
    (op = "solar_lunar_solar" /\ pc \in {"mid", "done"}) =>
        \A y \in DOMAIN YearCodes :
            LET L == YearCodes[y] % 16
                leap_length == IF bit(YearCodes[y], 16) = 1 THEN 30 ELSE 29
                first == leap_month_first_jd(y)
                jd == jd_from_date(arg.date[1], arg.date[2], arg.date[3])
            IN  L > 0 =>
                  /\ jd = first =>
                        mid = [kind |-> "ok", val |-> << 1, L, y, TRUE >>,
                               tier |-> "lookup"]
                  /\ jd = first + leap_length - 1 =>
                        mid = [kind |-> "ok", val |-> << leap_length, L, y, TRUE >>,
                               tier |-> "lookup"]
                  /\ (jd = first + leap_length /\ L < 12) =>
                        mid = [kind |-> "ok", val |-> << 1, L + 1, y, FALSE >>,
                               tier |-> "lookup"]

\* 2020-05-23, the day after the last day of ordinary month 4 of 2020, has
\* been converted to the first day of the leap month
C22_Witness ==
    /\ op = "solar_lunar_solar" /\ pc = "mid"
    /\ arg.date = << 23, 5, 2020 >>
    /\ jd_from_date(23, 5, 2020) = leap_month_first_jd(2020)
    /\ mid.val = << 1, 4, 2020, TRUE >>

\* days of the year before the first day of a month
days_before_month(month, leap) ==
    << 0, 31, 59, 90, 120, 151, 181, 212, 243, 273, 304, 334 >>[month]
        + (IF leap /\ month > 2 THEN 1 ELSE 0)

\* the Julian Day Number of a Gregorian-calendar date by counting days:
\* 0001-01-01 is day 1721426, a leap day every 4th year but not every 100th
\* unless every 400th
gregorian_jdn(dd, mm, yy) ==
    1721426 + 365 * (yy - 1) + ((yy - 1) \div 4) - ((yy - 1) \div 100)
        + ((yy - 1) \div 400)
        + days_before_month(mm, (yy % 4 = 0 /\ yy % 100 # 0) \/ yy % 400 = 0)
        + (dd - 1)

\* the Julian Day Number of a Julian-calendar date by counting days:
\* 0001-01-01 is day 1721424, a leap day every 4th year
julian_jdn(dd, mm, yy) ==
    1721424 + 365 * (yy - 1) + ((yy - 1) \div 4)
        + days_before_month(mm, yy % 4 = 0) + (dd - 1)

\* C23: jd_from_date equals the standard Gregorian-calendar Julian Day Number
\* for every valid date on or after 1582-10-15 (reference values 2000-01-01 ->
\* 2451545, 1970-01-01 -> 2440588, 1945-09-02 -> 2431701, consecutive calendar
\* days differing by exactly 1), and equals the Julian-calendar JDN for dates
\* whose Gregorian-formula value is below 2299161.
C23_StandardJdn ==
    (op = "date_jd_date" /\ pc \in {"mid", "done"}) =>
        LET next == next_calendar_day(arg.date)
        IN  /\ ~ SolarDate_lt(arg.date, << 15, 10, 1582 >>) =>
                  /\ mid.jd = gregorian_jdn(arg.date[1], arg.date[2], arg.date[3])
                  /\ jd_from_date(next[1], next[2], next[3]) = mid.jd + 1
            /\ gregorian_jdn(arg.date[1], arg.date[2], arg.date[3]) < GregorianStartJd =>
                  mid.jd = julian_jdn(arg.date[1], arg.date[2], arg.date[3])
            /\ arg.date = << 1, 1, 2000 >> => mid.jd = 2451545
            /\ arg.date = << 1, 1, 1970 >> => mid.jd = 2440588
            /\ arg.date = << 2, 9, 1945 >> => mid.jd = 2431701

\* the last day before the Gregorian regime by the Gregorian formula,
\* 1582-10-14, has got the Julian-calendar number of a 14th of October
C23_Witness ==
    /\ op = "date_jd_date" /\ pc = "mid"
    /\ arg.date = << 14, 10, 1582 >>
    /\ gregorian_jdn(14, 10, 1582) = GregorianStartJd - 1
    /\ mid.jd = GregorianStartJd + 9

\* C24: day Can-Chi has period exactly 60: for every integer jd,
\* day_name(jd + 60) = day_name(jd), and the 60 names day_name(jd), ...,
\* day_name(jd + 59) are pairwise distinct (stem index (jd + 9) mod 10, branch
\* index (jd + 1) mod 12).
C24_DayNamePeriod ==
    (op = "day_name" /\ pc = "done") =>
        /\ res.names[60] = res.names[0]
        /\ \A i \in 0..59 : \A j \in 0..59 :
              i # j => res.names[i] # res.names[j]
        /\ \A i \in 0..60 :
              /\ res.names[i][1] = CAN[((arg.jd + i + 9) % 10) + 1]
              /\ res.names[i][2] = CHI[((arg.jd + i + 1) % 12) + 1]

\* the names of the 61 days from the negative day number -19 on have been
\* computed: "Giap Ngo" first and last, "Quy Ti" on the 60th day
C24_Witness ==
    /\ op = "day_name" /\ pc = "done"
    /\ arg.jd = 0 - 19
    /\ res.names[0] = << "Giap", "Ngo" >>
    /\ res.names[59] = << "Quy", "Ti" >>
    /\ res.names[60] = << "Giap", "Ngo" >>

\* C25: decoded month spans tile the lunar year: the first entry is ordinary
\* month 1 starting at tet_jdn = jd_from_date(1, 1, year) + tet_offset, every
\* entry has 29 or 30 days (ordinary month m has 30 days iff bit 16 - m of the
\* code is set, the leap month iff bit 16 is set), and each subsequent entry's
\* jd_start equals the previous entry's jd_start plus its day count.
C25_MonthSpansTile ==
    (op = "decode" /\ pc = "done") =>
        LET months == res.months
            tet_jdn == jd_from_date(1, 1, arg.year) + (arg.year_code \div (2 ^ 17))
        IN  /\ res.jd_tet = tet_jdn
            /\ Len(months) >= 1
            /\ months[1].month = 1 /\ ~ months[1].is_leap
            /\ months[1].jd_start = tet_jdn
            /\ \A i \in DOMAIN months :
                  /\ months[i].days \in {29, 30}
                  /\ months[i].days = 30 <=>
                        (arg.year_code
                            \div (2 ^ (IF months[i].is_leap THEN 16
                                       ELSE 16 - months[i].month))) % 2 = 1
            /\ \A i \in 1..(Len(months) - 1) :
                  months[i + 1].jd_start = months[i].jd_start + months[i].days

\* a code with a leap month 12 of 30 days and alternating ordinary lengths
\* has been decoded: the 13 spans end 384 days after Tet
C25_Witness ==
    /\ op = "decode" /\ pc = "done"
    /\ arg.year_code % 16 = 12
    /\ Len(res.months) = 13
    /\ res.months[13].is_leap /\ res.months[13].days = 30
    /\ res.months[1].days # res.months[2].days
    /\ res.months[13].jd_start + res.months[13].days = res.jd_tet + 384

\* what the two scans have done so far and, once done, returned
C26_ScanBounds ==
    /\ (op = "leap_month_offset" /\ pc \in {"scan", "done"}) =>
          /\ mid.passes <= 13
          /\ mid.i = (IF pc = "done" /\ res.val # 0 THEN mid.passes ELSE mid.passes + 1)
    /\ (op = "leap_month_offset" /\ pc = "done") =>
          LET k == lunation_index_rounded(arg.a11)
              segment(n) == get_sun_longitude(
                                get_new_moon_day(k + n, arg.timezone), arg.timezone)
              equal_pairs == { i \in 2..13 : segment(i) = segment(i - 1) }
          IN  /\ res.val \in 0..12
              /\ equal_pairs = {} => (res.val = 0 /\ mid.passes = 13)
              /\ \A i \in equal_pairs :
                    (\A j \in equal_pairs : i <= j) =>
                        (res.val = i - 1 /\ mid.passes = i)
    /\ (op = "all_solar_terms" /\ pc \in {"scan", "done"}) =>
          /\ mid.passes <= 366
          /\ mid.passes = mid.jd - (jd_from_date(1, 1, arg.year) + 1)
    /\ (op = "all_solar_terms" /\ pc = "done") =>
          mid.passes = jd_from_date(31, 12, arg.year) - jd_from_date(1, 1, arg.year)

\* C26: get_leap_month_offset(a11, tz) always terminates after examining at
\* most 13 successive new moons and returns a value in 0..12: i - 1 for the
\* smallest i in 2..13 such that the solar-longitude segments of new moons
\* k + i and k + i - 1 are identical, and 0 when no such i exists;
\* get_all_solar_terms likewise terminates after scanning at most 366 days.
C26_ScansTerminate == [] C26_ScanBounds /\ <> (pc = "done")

\* a leap month scan has run its 13 passes without finding two equal
\* segments and has returned 0
C26_Witness ==
    /\ op = "leap_month_offset" /\ pc = "done"
    /\ mid.passes = 13
    /\ res.val = 0

\* C27: the two lucky-hour entry points agree: for every valid solar date D
\* and every clock hour h in 0..23, get_hour_info(h, D)['is_lucky'] equals
\* get_lucky_hours(jd_from_date(D))[hour_chi_index(h)]['is_lucky'],
\* including h = 23.
C27_LuckyEntryPointsAgree ==
    (op = "hour_info" /\ pc = "done" /\ arg.hour \in 0..23) =>
        /\ res.kind = "ok"
        /\ res.is_lucky =
              get_lucky_hours(jd_from_date(arg.date[1], arg.date[2], arg.date[3]))
                  [hour_chi_index(arg.hour).val + 1].is_lucky

\* C27 as amended: for h in 0..22 get_hour_info(h, D)['is_lucky'] equals
\* get_lucky_hours(jd_from_date(D))[hour_chi_index(h)]['is_lucky']; for h = 23
\* it equals get_lucky_hours(jd_from_date(D) + 1)[0]['is_lucky'], the Ty hour
\* of the next day's list.
C27_LuckyEntryPointsAgreeByCycle ==
    (op = "hour_info" /\ pc = "done" /\ arg.hour \in 0..23) =>
        LET jd == jd_from_date(arg.date[1], arg.date[2], arg.date[3])
            hours == get_lucky_hours(IF arg.hour = 23 THEN jd + 1 ELSE jd)
        IN  /\ res.kind = "ok"
            /\ res.is_lucky = hours[hour_chi_index(arg.hour).val + 1].is_lucky
            /\ res.chi = hours[hour_chi_index(arg.hour).val + 1].name

\* hour 23 of a day whose own Ty hour is lucky has been looked up and is
\* unlucky, as the Ty hour of the next day is
C27_Witness ==
    /\ op = "hour_info" /\ pc = "done"
    /\ arg.hour = 23
    /\ res.kind = "ok" /\ ~ res.is_lucky
    /\ get_lucky_hours(jd_from_date(arg.date[1], arg.date[2], arg.date[3]))[1].is_lucky
    /\ ~ get_lucky_hours(jd_from_date(arg.date[1], arg.date[2], arg.date[3]) + 1)[1].is_lucky

\* C28: jd_to_date never produces a date the Gregorian validator rejects: for
\* every integer jd (including jd <= 2299160, where the Julian branch is
\* used), jd_to_date(jd) satisfies SolarDate.is_valid, so SolarDate.from_jd(jd)
\* never raises DateNotExistError.
C28_JdToDateValid ==
    (op = "from_jd" /\ pc = "done") =>
        /\ is_valid(jd_to_date(arg.jd)[1], jd_to_date(arg.jd)[2], jd_to_date(arg.jd)[3])
        /\ res = [kind |-> "ok", val |-> jd_to_date(arg.jd)]

\* Tet of the next table year is the day after the last day of lunar year y
table_years_contiguous(y) ==
    LET months == get_lunar_year_data(y)[2]
    IN  get_lunar_year_data(y + 1)[1]
            = months[Len(months)].jd_start + months[Len(months)].days

\* C29: reverse round trip: for every lunar date (d, m, y, leap) of a
\* table-covered year for which lunar_to_solar succeeds with d >= 1 and whose
\* solar date falls in a table-covered solar year,
\* solar_to_lunar(*lunar_to_solar(d, m, y, leap)) = (d, m, y, leap), provided
\* consecutive table years are contiguous.
C29_LunarRoundTrip ==
    ( /\ op = "lunar_solar_lunar" /\ pc = "done"
      /\ arg.year >= 1800 /\ arg.year <= 2099
      /\ arg.day >= 1
      /\ mid.kind = "ok"
      /\ mid.val[3] >= 1800 /\ mid.val[3] <= 2099
      /\ (mid.val[3] # arg.year => table_years_contiguous(arg.year)) )
    => /\ res.kind = "ok"
       /\ res.val = << arg.day, arg.month, arg.year, arg.leap >>

\* the last day of month 12 of lunar year 2023, which falls in solar year
\* 2024 before Tet, has come back from the round trip
C29_Witness ==
    /\ op = "lunar_solar_lunar" /\ pc = "done"
    /\ arg.year = 2023 /\ arg.month = 12 /\ arg.day = 30 /\ ~ arg.leap
    /\ mid.val = << 9, 2, 2024 >>
    /\ table_years_contiguous(2023)
    /\ res.val = << 30, 12, 2023, FALSE >>

\* C30: lunar_to_solar never returns a date outside the requested month:
\* whenever lunar_to_solar(day, month, year, leap) returns without raising,
\* the JDN of the returned solar date lies in [month_start, month_start +
\* month_length - 1] of the requested month instance; in particular a call
\* with day <= 0 is rejected with DateNotExistError rather than answered with
\* a day of the preceding month.
C30_WithinRequestedMonth ==
    /\ (op \in {"lunar_to_solar", "lunar_to_solar_astro"} /\ pc = "done"
            /\ arg.day <= 0) =>
          res.kind = "DateNotExistError"
    /\ (op = "lunar_to_solar" /\ pc = "done" /\ res.kind = "ok"
            /\ res.tier = "lookup") =>
          LET months == get_lunar_year_data(arg.year)[2]
              jd == jd_from_date(res.val[1], res.val[2], res.val[3])
          IN  \E i \in DOMAIN months :
                  /\ months[i].month = arg.month /\ months[i].is_leap = arg.leap
                  /\ jd >= months[i].jd_start
                  /\ jd <= months[i].jd_start + months[i].days - 1
    /\ (op = "lunar_to_solar_astro" /\ pc = "done" /\ res.kind = "ok") =>
          LET target == astro_month_lunation(arg.month, arg.year, arg.leap, arg.timezone)
              jd == jd_from_date(res.val[1], res.val[2], res.val[3])
          IN  /\ jd >= get_new_moon_day(target.lunation, arg.timezone)
              /\ jd <= get_new_moon_day(target.lunation + 1, arg.timezone) - 1

====
